---- MODULE Spec2Model ----
(***************************************************************************)
(* Verification model of the DEX arbitrage bot: the two-tier price store   *)
(* (DataManager), the polling orchestrator (PriceMonitor), the arbitrage   *)
(* detector (ArbitrageDetector) with its cooldown ledger, and main().      *)
(*                                                                         *)
(* Time is counted in abstract clock steps.  Percentages are exact         *)
(* rationals in hundredths of a percent (0.3% is 30), so the float64       *)
(* comparisons of the source are modelled by exact arithmetic.             *)
(***************************************************************************)
EXTENDS Integers, Sequences, FiniteSets, TLC

\* ------------------------------------------------------------------------
\* Bounds of the model
\* ------------------------------------------------------------------------
MaxTime == 2

MaxSaves == 2

MaxFaults == 1

MaxTicks == 1

MaxLoopTicks == 2

MaxLoopErrors == 1

\* ------------------------------------------------------------------------
\* Configuration snapshot (AppConfig)
\* ------------------------------------------------------------------------
dexes == <<"uniswap_v3", "curve">>

cexes == <<"bitbank">>

token_pairs == <<"ETH/JPY">>

\* Durations are scaled to clock steps: the sleep between two ticks is one
\* step, the notification cooldown two steps, the cache expiry one step.
price_update_interval == 1

notification_cooldown == 2

\* percentages in hundredths of a percent: 0.5% is 50, the default of
\* ARBITRAGE_THRESHOLD
default_arbitrage_threshold == 50

slippage_tolerance == 30

dex_fee_percent == [uniswap_v3 |-> 30, curve |-> 4]

cex_fees == [bitbank |-> 12, bitflyer |-> 15, coincheck |-> 20, zaif |-> 20, bittrade |-> 15]

default_cex_fee == 20

cache_ttl == 1

\* asyncio.sleep(5) of the two except clauses: five seconds, the default
\* price_update_interval, one clock step
error_retry_delay == 1

history_limit == 10

None == "None"

Range(s) == {s[i] : i \in DOMAIN s}

Min(a, b) == IF a < b THEN a ELSE b

\* dict.get(key, default)
Get(d, k, default) == IF k \in DOMAIN d THEN d[k] ELSE default

\* d[key] = value on a dict held as a function
Put(d, k, v) == [x \in (DOMAIN d) \cup {k} |-> IF x = k THEN v ELSE d[x]]

EmptyDict == [x \in {} |-> None]

\* no pair has been loaded by the detection loop yet
NoLoad == [pair |-> None, venues |-> 0, computed |-> FALSE, opportunities |-> 0,
           stamps |-> {}]

\* a fetch task that has not produced anything
NoResult == [raised |-> FALSE, prices |-> EmptyDict]

VARIABLES
    now,              \* wall clock, time.time()
    db_state,         \* DataManager life cycle: "constructed", "ready", "failed"
    redis,            \* self.redis: None or "pool"
    redis_attempted,  \* create_redis_pool has been called
    in_memory_cache,  \* self.in_memory_cache
    redis_kv,         \* external cache: string keys with expiry
    redis_zset,       \* external cache: sorted sets
    prices_table,     \* durable log, table prices
    startup,          \* outcome of the two connections made by initialize
    save_calls,       \* record of the save_price calls made so far
    n_saves,          \* number of save_price calls made so far
    main_pc,          \* position of main()
    monitor_started,  \* create_task(price_monitor.start_monitoring()) done
    detector_started, \* create_task(arbitrage_detector.start_detection()) done
    mon_pc,           \* position of start_monitoring inside its tick
    task_state,       \* per venue: "idle", "running" or "done" fetch task
    task_result,      \* per venue: what the finished task handed to gather
    dex_prices,       \* return value of _fetch_dex_prices
    all_prices,       \* {**dex_prices, **cex_prices}
    save_queue,       \* (exchange, pair, price_data) still to be saved
    tick_timestamp,   \* timestamp taken at line 44
    mon_wake,         \* end of the current asyncio.sleep of the monitor
    n_ticks,          \* number of completed ticks
    mon_errors,       \* the exceptions caught at line 59, with their time
    det_pc,           \* position of start_detection inside its pass
    det_idx,          \* index of the next token pair of the pass
    pending,          \* opportunities of the current pair not yet handled
    notification_history, \* self.notification_history
    sent,             \* messages handed to SlackNotifier.send_notification
    arbitrage_table,  \* durable log, table arbitrage_opportunities
    detections,       \* record of the opportunities handled so far
    det_wake,         \* end of the current asyncio.sleep of the detector
    det_errors,       \* the exceptions caught at line 64, with their time
    last_load,        \* what the pass made of the last pair it loaded
    fn_prices,        \* argument of a direct _detect_arbitrage call
    fn_result,        \* its return value
    fn_done,          \* the call has returned
    gq_pc,            \* position of GraphQLClient.execute
    retry_count,      \* its local retry_count
    last_error,       \* its local last_error
    gq_attempts,      \* what each session.post of the call met, in order
    gq_sleeps,        \* the delays execute has slept, in order
    gq_exit,          \* the return statement execute left through
    gq_result,        \* the return value of execute
    gq_parsed,        \* what each parse_*_response made of that return value
    ad_name,          \* the adapter of a direct adapter call
    ad_response,      \* the response body handed to it
    ad_base,          \* the configured base symbol
    ad_quote,         \* the configured quote symbol
    ad_result,        \* the price points the adapter returned
    ad_done,          \* the adapter call has returned
    env_arbitrage_threshold \* ARBITRAGE_THRESHOLD as AppConfig read it

storeVars == <<db_state, redis, redis_attempted, in_memory_cache, redis_kv,
               redis_zset, prices_table>>

ghostVars == <<startup, save_calls, n_saves>>

mainVars == <<main_pc, monitor_started, detector_started>>

monVars == <<mon_pc, task_state, task_result, dex_prices, all_prices, save_queue,
             tick_timestamp, mon_wake, n_ticks, mon_errors>>

detVars == <<det_pc, det_idx, pending, notification_history, sent, arbitrage_table,
             detections, det_wake, det_errors, last_load>>

fnVars == <<fn_prices, fn_result, fn_done>>

gqVars == <<gq_pc, retry_count, last_error, gq_attempts, gq_sleeps, gq_exit, gq_result,
            gq_parsed>>

adVars == <<ad_name, ad_response, ad_base, ad_quote, ad_result, ad_done>>

cfgVars == <<env_arbitrage_threshold>>

\* self.config.arbitrage_threshold = float(os.getenv("ARBITRAGE_THRESHOLD", "0.5"))
arbitrage_threshold == env_arbitrage_threshold

\* the environment does not set ARBITRAGE_THRESHOLD
DefaultConfig == env_arbitrage_threshold = default_arbitrage_threshold

vars == <<now, storeVars, ghostVars, mainVars, monVars, detVars, fnVars, gqVars, adVars, cfgVars>>

\* The state after the constructors have run.
InitCommon ==
    /\ now = 0
    /\ db_state = "constructed"
    /\ redis = None
    /\ redis_attempted = FALSE
    /\ in_memory_cache = EmptyDict
    /\ redis_kv = EmptyDict
    /\ redis_zset = EmptyDict
    /\ prices_table = {}
    /\ startup = [done |-> FALSE, sqlite_ok |-> FALSE, redis_ok |-> FALSE]
    /\ save_calls = {}
    /\ n_saves = 0
    /\ main_pc = "initialize"
    /\ monitor_started = FALSE
    /\ detector_started = FALSE
    /\ mon_pc = "idle"
    /\ task_state = [v \in Range(dexes \o cexes) |-> "idle"]
    /\ task_result = [v \in Range(dexes \o cexes) |-> NoResult]
    /\ dex_prices = EmptyDict
    /\ all_prices = EmptyDict
    /\ save_queue = <<>>
    /\ tick_timestamp = 0
    /\ mon_wake = 0
    /\ n_ticks = 0
    /\ mon_errors = <<>>
    /\ det_errors = <<>>
    /\ last_load = NoLoad
    /\ det_pc = "pairs"
    /\ det_idx = 1
    /\ pending = <<>>
    /\ notification_history = EmptyDict
    /\ sent = <<>>
    /\ arbitrage_table = <<>>
    /\ detections = {}
    /\ det_wake = 0
    /\ fn_result = <<>>
    /\ fn_done = FALSE
    /\ gq_pc = "loop"
    /\ retry_count = 0
    /\ last_error = None
    /\ gq_attempts = <<>>
    /\ gq_sleeps = <<>>
    /\ gq_exit = "running"
    /\ gq_result = EmptyDict
    /\ gq_parsed = EmptyDict
    /\ ad_result = <<>>
    /\ ad_done = FALSE

\* no adapter is being called directly
NoAdapterCall ==
    /\ ad_name = None
    /\ ad_response = EmptyDict
    /\ ad_base = None
    /\ ad_quote = None

\* ------------------------------------------------------------------------
\* DataManager
\* ------------------------------------------------------------------------
price_key(exchange, pair) == <<"price", exchange, pair>>

price_history_key(exchange, pair) == <<"price_history", exchange, pair>>

\* the dict built at lines 109-113, 129-133 and 141-145
price_point(price_data, timestamp) ==
    [price |-> Get(price_data, "price", 0),
     liquidity |-> Get(price_data, "liquidity", 0),
     timestamp |-> timestamp]

json_dumps(d) == <<"json", d.price, d.liquidity, d.timestamp>>

json_loads(s) == [price |-> s[2], liquidity |-> s[3], timestamp |-> s[4]]

\* list.sort(key=timestamp, reverse=True): stable, descending
RECURSIVE sort_desc(_)
sort_desc(s) ==
    IF Len(s) <= 1 THEN s
    ELSE LET rest == sort_desc(SubSeq(s, 1, Len(s) - 1))
             x == s[Len(s)]
             k == Cardinality({i \in DOMAIN rest : rest[i].timestamp >= x.timestamp})
         IN SubSeq(rest, 1, k) \o <<x>> \o SubSeq(rest, k + 1, Len(rest))

\* a plain INSERT into a table without the UNIQUE constraint
_save_price_to_sqlite_plain_insert(table, exchange, pair, price, liquidity, timestamp, sqlite_fault) ==
    IF sqlite_fault THEN table
    ELSE table \cup {[exchange |-> exchange, pair |-> pair, price |-> price,
                      liquidity |-> liquidity, timestamp |-> timestamp]}

\* INSERT OR REPLACE under UNIQUE(exchange, pair, timestamp)
_save_price_to_sqlite(table, exchange, pair, price, liquidity, timestamp, sqlite_fault) ==
    IF sqlite_fault THEN table
    ELSE {r \in table : ~(r.exchange = exchange /\ r.pair = pair /\ r.timestamp = timestamp)}
         \cup {[exchange |-> exchange, pair |-> pair, price |-> price,
                liquidity |-> liquidity, timestamp |-> timestamp]}

\* redis.zadd(key, score, member): one entry per member
zadd(zset, score, member) ==
    {e \in zset : e.member # member} \cup {[score |-> score, member |-> member]}

\* redis.zremrangebyscore(key, lo, hi)
zremrangebyscore(zset, lo, hi) == {e \in zset : ~(lo <= e.score /\ e.score <= hi)}

\* redis.get(key) returns data: an expired key reads as absent
redis_has(key) == key \in DOMAIN redis_kv /\ now < redis_kv[key].expire_at

redis_get(key) == redis_kv[key].value

\* initialize logging the durable-log failure without re-raising it
initialize_swallows_sqlite_error(sqlite_ok, redis_ok) ==
    /\ db_state = "constructed"
    /\ db_state' = "ready"
    /\ redis_attempted' = TRUE
    /\ redis' = IF redis_ok THEN "pool" ELSE None
    /\ UNCHANGED <<in_memory_cache, redis_kv, redis_zset, prices_table>>

\* initialize keeping a pool object although the connection failed
initialize_keeps_pool(sqlite_ok, redis_ok) ==
    /\ db_state = "constructed"
    /\ IF ~sqlite_ok
       THEN /\ db_state' = "failed"
            /\ UNCHANGED <<redis, redis_attempted>>
       ELSE /\ db_state' = "ready"
            /\ redis_attempted' = TRUE
            /\ redis' = "pool"
    /\ UNCHANGED <<in_memory_cache, redis_kv, redis_zset, prices_table>>

\* DataManager.initialize: the durable log first, then the optional cache
initialize(sqlite_ok, redis_ok) ==
    /\ db_state = "constructed"
    /\ IF ~sqlite_ok
       THEN /\ db_state' = "failed"
            /\ UNCHANGED <<redis, redis_attempted>>
       ELSE /\ db_state' = "ready"
            /\ redis_attempted' = TRUE
            /\ redis' = IF redis_ok THEN "pool" ELSE None
    /\ UNCHANGED <<in_memory_cache, redis_kv, redis_zset, prices_table>>

\* the else branch of save_price, lines 126-149
\* history_data[-10:] in place of history_data[:10]
last_ten(history_data) ==
    SubSeq(history_data, Len(history_data) - Min(history_limit, Len(history_data)) + 1,
           Len(history_data))

\* history_data[:10] at line 149
first_ten(history_data) == SubSeq(history_data, 1, Min(history_limit, Len(history_data)))

save_in_memory(cache, exchange, pair, price_data, timestamp) ==
    LET key == price_key(exchange, pair)
        history_key == price_history_key(exchange, pair)
        c1 == Put(cache, key, price_point(price_data, timestamp))
        c2 == IF history_key \in DOMAIN c1 THEN c1 ELSE Put(c1, history_key, <<>>)
        history_data == sort_desc(Append(c2[history_key], price_point(price_data, timestamp)))
    IN Put(c2, history_key, first_ten(history_data))

\* redis.setex(key, 3600, json_data) at line 116
setex_latest(kv, exchange, pair, price_data, timestamp, redis_fault) ==
    LET json_data == json_dumps(price_point(price_data, timestamp)) IN
    IF redis_fault = "setex" THEN kv
    ELSE Put(kv, price_key(exchange, pair),
             [value |-> json_data, expire_at |-> now + cache_ttl])

\* redis.zadd and redis.zremrangebyscore at lines 119-124
zadd_history(zsets, exchange, pair, price_data, timestamp, redis_fault) ==
    LET history_key == price_history_key(exchange, pair)
        json_data == json_dumps(price_point(price_data, timestamp))
        zs1 == IF redis_fault \in {"setex", "zadd"} THEN zsets
               ELSE Put(zsets, history_key,
                        zadd(Get(zsets, history_key, {}), timestamp, json_data))
    IN IF redis_fault # "none" THEN zs1
       ELSE Put(zs1, history_key,
                zremrangebyscore(zs1[history_key], 0, timestamp - cache_ttl))

\* The fast-tier branch a save_price call takes.
use_redis == redis # None

\* DataManager.save_price.  redis_fault names the cache command that raises
\* ("none" when all succeed); sqlite_fault says whether the durable insert
\* raises inside _save_price_to_sqlite.
save_price(exchange, pair, price_data, timestamp, redis_fault, sqlite_fault) ==
    LET raised == use_redis /\ redis_fault # "none"
    IN /\ IF use_redis
          THEN /\ redis_kv' = setex_latest(redis_kv, exchange, pair, price_data,
                                           timestamp, redis_fault)
               /\ redis_zset' = zadd_history(redis_zset, exchange, pair, price_data,
                                             timestamp, redis_fault)
               /\ UNCHANGED in_memory_cache
          ELSE /\ in_memory_cache' = save_in_memory(in_memory_cache, exchange, pair,
                                                    price_data, timestamp)
               /\ UNCHANGED <<redis_kv, redis_zset>>
       /\ prices_table' =
            IF raised THEN prices_table
            ELSE _save_price_to_sqlite(prices_table, exchange, pair,
                                       Get(price_data, "price", 0),
                                       Get(price_data, "liquidity", 0),
                                       timestamp, sqlite_fault)
       /\ UNCHANGED <<db_state, redis, redis_attempted>>

\* the body of get_latest_prices on the branch "if self.redis" (with_redis)
\* or on its else branch: a dict venue -> point
latest_prices_of(with_redis, pair) ==
    LET exchanges == dexes \o cexes
        present == {e \in Range(exchanges) :
                      IF with_redis
                      THEN redis_has(price_key(e, pair))
                      ELSE price_key(e, pair) \in DOMAIN in_memory_cache}
    IN [e \in present |->
          IF with_redis
          THEN json_loads(redis_get(price_key(e, pair)))
          ELSE in_memory_cache[price_key(e, pair)]]

\* DataManager.get_latest_prices
get_latest_prices(pair) == latest_prices_of(redis # None, pair)

\* list.sort(key=timestamp): stable, ascending
RECURSIVE sort_asc(_)
sort_asc(s) ==
    IF Len(s) <= 1 THEN s
    ELSE LET rest == sort_asc(SubSeq(s, 1, Len(s) - 1))
             x == s[Len(s)]
             k == Cardinality({i \in DOMAIN rest : rest[i].timestamp <= x.timestamp})
         IN SubSeq(rest, 1, k) \o <<x>> \o SubSeq(rest, k + 1, Len(rest))

\* order of a sorted set's entries: by score, then by member
zless(a, b) ==
    \/ a.score < b.score
    \/ a.score = b.score /\ a.member[2] < b.member[2]
    \/ a.score = b.score /\ a.member[2] = b.member[2] /\ a.member[3] < b.member[3]

RECURSIVE zorder(_)
zorder(zset) ==
    IF zset = {} THEN <<>>
    ELSE LET m == CHOOSE e \in zset : \A f \in zset \ {e} : zless(e, f)
         IN <<m>> \o zorder(zset \ {m})

\* redis.zrangebyscore(key, lo, hi)
zrangebyscore(key, lo, hi) ==
    zorder({e \in Get(redis_zset, key, {}) : lo <= e.score /\ e.score <= hi})

\* SELECT ... WHERE exchange, pair, timestamp BETWEEN ... ORDER BY timestamp
RECURSIVE rows_by_timestamp(_)
rows_by_timestamp(rows) ==
    IF rows = {} THEN <<>>
    ELSE LET m == CHOOSE r \in rows : \A q \in rows : r.timestamp <= q.timestamp
         IN <<[price |-> m.price, liquidity |-> m.liquidity, timestamp |-> m.timestamp]>>
            \o rows_by_timestamp(rows \ {m})

_get_price_history_from_sqlite(exchange, pair, start_time, end_time) ==
    rows_by_timestamp({r \in prices_table :
                          /\ r.exchange = exchange /\ r.pair = pair
                          /\ start_time <= r.timestamp /\ r.timestamp <= end_time})

\* the body of get_price_history on the branch "if self.redis" (with_redis)
\* or on its else branch
price_history_of(with_redis, exchange, pair, start_time, end_time) ==
    LET history_key == price_history_key(exchange, pair)
        from_redis == LET data == zrangebyscore(history_key, start_time, end_time)
                      IN [i \in DOMAIN data |-> json_loads(data[i].member)]
        from_memory == IF history_key \in DOMAIN in_memory_cache
                       THEN SelectSeq(in_memory_cache[history_key],
                                      LAMBDA item : start_time <= item.timestamp
                                                    /\ item.timestamp <= end_time)
                       ELSE <<>>
        db_history == _get_price_history_from_sqlite(exchange, pair, start_time, end_time)
        existing_timestamps == {from_memory[i].timestamp : i \in DOMAIN from_memory}
        merged == IF Len(from_memory) < history_limit
                  THEN from_memory \o SelectSeq(db_history,
                                        LAMBDA item : item.timestamp \notin existing_timestamps)
                  ELSE from_memory
    IN sort_asc(IF with_redis THEN from_redis ELSE merged)

\* DataManager.get_price_history
get_price_history(exchange, pair, start_time, end_time) ==
    price_history_of(redis # None, exchange, pair, start_time, end_time)

\* ------------------------------------------------------------------------
\* ArbitrageDetector
\* ------------------------------------------------------------------------
\* ArbitrageDetector._get_exchange_fee
_get_exchange_fee(exchange) ==
    IF exchange \in Range(dexes) THEN dex_fee_percent[exchange]
    ELSE Get(cex_fees, exchange, default_cex_fee)

\* abs(sell - buy) / buy * 100: the size of the difference without its sign
price_diff_percent_abs(buy, sell) ==
    [num |-> (IF sell >= buy THEN sell - buy ELSE buy - sell) * 10000, den |-> buy]

\* (sell - buy) / buy * 100, kept as the exact fraction num / den
price_diff_percent(buy, sell) == [num |-> (sell - buy) * 10000, den |-> buy]

\* the comparison with >= in place of >
exceeds_threshold_ge(diff, total_cost) ==
    diff.num >= (total_cost + arbitrage_threshold) * diff.den

\* price_diff_percent > total_cost + arbitrage_threshold
exceeds_threshold(diff, total_cost) ==
    diff.num > (total_cost + arbitrage_threshold) * diff.den

\* the dict appended at lines 110-121 and 127-138
opportunity(pair_str, buy_exchange, sell_exchange, buy_price, sell_price, diff, fees, slippage, total_cost, timestamp) ==
    [pair |-> pair_str,
     buy_exchange |-> buy_exchange,
     sell_exchange |-> sell_exchange,
     buy_price |-> buy_price,
     sell_price |-> sell_price,
     price_diff_percent |-> diff,
     fees_percent |-> fees,
     slippage_percent |-> slippage,
     net_profit_percent |-> [num |-> diff.num - total_cost * diff.den, den |-> diff.den],
     timestamp |-> timestamp]

\* the second direction tested only when the first was not emitted
two_ifs_as_elif(first, second) == IF first # <<>> THEN first ELSE second

\* the if statements of lines 106 and 123 are two statements: what the second
\* appends follows what the first appended
two_ifs(first, second) == first \o second

\* body of the double loop of _detect_arbitrage for one (exchange1, exchange2)
detect_pair(pair_str, prices, exchange1, exchange2) ==
    IF DOMAIN prices[exchange1] = {} \/ DOMAIN prices[exchange2] = {} THEN <<>>
    ELSE
      LET price1 == Get(prices[exchange1], "price", 0)
          price2 == Get(prices[exchange2], "price", 0)
      IN
      IF price1 <= 0 \/ price2 <= 0 THEN <<>>
      ELSE
        LET price_diff_percent1 == price_diff_percent(price1, price2)
            price_diff_percent2 == price_diff_percent(price2, price1)
            fee1 == _get_exchange_fee(exchange1)
            fee2 == _get_exchange_fee(exchange2)
            slippage == slippage_tolerance
            total_cost1 == fee1 + fee2 + slippage
            total_cost2 == fee1 + fee2 + slippage
        IN two_ifs(IF exceeds_threshold(price_diff_percent1, total_cost1)
                   THEN <<opportunity(pair_str, exchange1, exchange2, price1, price2,
                                      price_diff_percent1, fee1 + fee2, slippage,
                                      total_cost1, now)>>
                   ELSE <<>>,
                   IF exceeds_threshold(price_diff_percent2, total_cost2)
                   THEN <<opportunity(pair_str, exchange2, exchange1, price2, price1,
                                      price_diff_percent2, fee1 + fee2, slippage,
                                      total_cost2, now)>>
                   ELSE <<>>)

\* the tests of lines 81 and 87 for one (exchange1, exchange2)
pair_skipped(prices, exchange1, exchange2) ==
    \/ DOMAIN prices[exchange1] = {}
    \/ DOMAIN prices[exchange2] = {}
    \/ Get(prices[exchange1], "price", 0) <= 0
    \/ Get(prices[exchange2], "price", 0) <= 0

\* a break in place of the continue: nothing is evaluated after a skip
continue_as_break(skipped, rest) == IF skipped THEN <<>> ELSE rest

\* "continue" at lines 82 and 88: the inner loop goes on with the next j
continue_loop(skipped, rest) == rest

\* list(prices.keys()): the dict is filled in configuration order
dict_keys(prices) == SelectSeq(dexes \o cexes, LAMBDA e : e \in DOMAIN prices)

RECURSIVE detect_loop(_, _, _, _, _)
detect_loop(pair_str, prices, exchanges, i, j) ==
    IF i > Len(exchanges) THEN <<>>
    ELSE IF j > Len(exchanges) THEN detect_loop(pair_str, prices, exchanges, i + 1, i + 2)
    ELSE detect_pair(pair_str, prices, exchanges[i], exchanges[j])
         \o continue_loop(pair_skipped(prices, exchanges[i], exchanges[j]),
                          detect_loop(pair_str, prices, exchanges, i, j + 1))

\* ArbitrageDetector._detect_arbitrage
_detect_arbitrage(pair_str, prices) ==
    detect_loop(pair_str, prices, dict_keys(prices), 1, 2)

\* ------------------------------------------------------------------------
\* SpecFn: _detect_arbitrage called directly on a price table
\* ------------------------------------------------------------------------
PriceValues == {0, 100, 101, 102, 625, 631}

VenueReports == {EmptyDict, [liquidity |-> 5]} \cup {[price |-> p] : p \in PriceValues}

FnInputs ==
    UNION {[V -> VenueReports] : V \in SUBSET Range(dexes \o cexes)}

\* the default, and a negative threshold (-3%), which float() accepts
ThresholdValues == {default_arbitrage_threshold, -300}

InitFn ==
    /\ InitCommon
    /\ NoAdapterCall
    /\ fn_prices \in FnInputs
    /\ env_arbitrage_threshold \in ThresholdValues

FnDetect ==
    /\ ~fn_done
    /\ fn_result' = _detect_arbitrage(token_pairs[1], fn_prices)
    /\ fn_done' = TRUE
    /\ UNCHANGED <<now, storeVars, ghostVars, mainVars, monVars, detVars, fn_prices, gqVars, adVars, cfgVars>>

FnNewCall ==
    /\ fn_done
    /\ fn_prices' \in FnInputs
    /\ fn_result' = <<>>
    /\ fn_done' = FALSE
    /\ UNCHANGED <<now, storeVars, ghostVars, mainVars, monVars, detVars, gqVars, adVars, cfgVars>>

NextFn == FnDetect \/ FnNewCall

SpecFn == InitFn /\ [][NextFn]_vars

\* ------------------------------------------------------------------------
\* SpecStore: the DataManager driven through its public methods
\* ------------------------------------------------------------------------
PriceDatas == {[price |-> 100, liquidity |-> 5], [price |-> 102, volume |-> 7]}

RedisFaults == {"none", "setex", "zadd", "zremrangebyscore"}

SaveExchanges == {"uniswap_v3", "bitbank"}

Faulty(calls) == {c \in calls : c.redis_raised \/ c.sqlite_fault}

InitStore == InitCommon /\ NoAdapterCall /\ DefaultConfig /\ fn_prices = EmptyDict

Tick ==
    /\ now < MaxTime
    /\ now' = now + 1
    /\ UNCHANGED <<storeVars, ghostVars, mainVars, monVars, detVars, fnVars, gqVars, adVars, cfgVars>>

StoreInitialize ==
    \E sqlite_ok \in BOOLEAN, redis_ok \in BOOLEAN :
        /\ initialize(sqlite_ok, redis_ok)
        /\ startup' = [done |-> TRUE, sqlite_ok |-> sqlite_ok, redis_ok |-> redis_ok]
        /\ UNCHANGED <<now, save_calls, n_saves, mainVars, monVars, detVars, fnVars, gqVars, adVars, cfgVars>>

StoreSavePrice ==
    /\ db_state = "ready"
    /\ n_saves < MaxSaves
    /\ \E exchange \in SaveExchanges, pair \in Range(token_pairs), price_data \in PriceDatas,
          timestamp \in 0..MaxTime, redis_fault \in RedisFaults, sqlite_fault \in BOOLEAN :
        LET raised == use_redis /\ redis_fault # "none" IN
        /\ redis = None => redis_fault = "none"
        /\ raised => ~sqlite_fault
        /\ (raised \/ sqlite_fault) => Cardinality(Faulty(save_calls)) < MaxFaults
        /\ save_price(exchange, pair, price_data, timestamp, redis_fault, sqlite_fault)
        /\ save_calls' = save_calls \cup
              {[exchange |-> exchange, pair |-> pair,
                point |-> price_point(price_data, timestamp),
                redis_raised |-> raised, sqlite_fault |-> sqlite_fault]}
        /\ n_saves' = n_saves + 1
        /\ UNCHANGED <<now, startup, mainVars, monVars, detVars, fnVars, gqVars, adVars, cfgVars>>

NextStore == Tick \/ StoreInitialize \/ StoreSavePrice

SpecStore == InitStore /\ [][NextStore]_vars

\* ------------------------------------------------------------------------
\* SpecTwin: two DataManager objects that are given the same save_price
\* calls at the same times.  The one whose create_redis_pool succeeded owns
\* redis_kv and redis_zset, the degraded one owns in_memory_cache; no insert
\* fails, so the prices table of both is the same table.
\* ------------------------------------------------------------------------
InitTwin ==
    /\ now = 0
    /\ db_state = "ready"
    /\ redis = "pool"
    /\ redis_attempted = TRUE
    /\ in_memory_cache = EmptyDict
    /\ redis_kv = EmptyDict
    /\ redis_zset = EmptyDict
    /\ prices_table = {}
    /\ startup = [done |-> TRUE, sqlite_ok |-> TRUE, redis_ok |-> TRUE]
    /\ save_calls = {}
    /\ n_saves = 0
    /\ main_pc = "initialize"
    /\ monitor_started = FALSE
    /\ detector_started = FALSE
    /\ mon_pc = "idle"
    /\ task_state = [v \in Range(dexes \o cexes) |-> "idle"]
    /\ task_result = [v \in Range(dexes \o cexes) |-> NoResult]
    /\ dex_prices = EmptyDict
    /\ all_prices = EmptyDict
    /\ save_queue = <<>>
    /\ tick_timestamp = 0
    /\ mon_wake = 0
    /\ n_ticks = 0
    /\ mon_errors = <<>>
    /\ det_errors = <<>>
    /\ last_load = NoLoad
    /\ det_pc = "pairs"
    /\ det_idx = 1
    /\ pending = <<>>
    /\ notification_history = EmptyDict
    /\ sent = <<>>
    /\ arbitrage_table = <<>>
    /\ detections = {}
    /\ det_wake = 0
    /\ fn_prices = EmptyDict
    /\ fn_result = <<>>
    /\ fn_done = FALSE
    /\ gq_pc = "loop"
    /\ retry_count = 0
    /\ last_error = None
    /\ gq_attempts = <<>>
    /\ gq_sleeps = <<>>
    /\ gq_exit = "running"
    /\ gq_result = EmptyDict
    /\ gq_parsed = EmptyDict
    /\ ad_result = <<>>
    /\ ad_done = FALSE
    /\ NoAdapterCall
    /\ DefaultConfig

\* one save_price call, made on both objects
TwinSavePrice ==
    /\ n_saves < MaxSaves
    /\ \E exchange \in SaveExchanges, pair \in Range(token_pairs), price_data \in PriceDatas,
          timestamp \in 0..MaxTime :
        /\ redis_kv' = setex_latest(redis_kv, exchange, pair, price_data, timestamp, "none")
        /\ redis_zset' = zadd_history(redis_zset, exchange, pair, price_data, timestamp, "none")
        /\ in_memory_cache' = save_in_memory(in_memory_cache, exchange, pair,
                                             price_data, timestamp)
        /\ prices_table' = _save_price_to_sqlite(prices_table, exchange, pair,
                                                 Get(price_data, "price", 0),
                                                 Get(price_data, "liquidity", 0),
                                                 timestamp, FALSE)
        /\ save_calls' = save_calls \cup
              {[exchange |-> exchange, pair |-> pair,
                point |-> price_point(price_data, timestamp),
                redis_raised |-> FALSE, sqlite_fault |-> FALSE]}
    /\ n_saves' = n_saves + 1
    /\ UNCHANGED <<now, db_state, redis, redis_attempted, startup, mainVars, monVars,
                   detVars, fnVars, gqVars, adVars, cfgVars>>

NextTwin == Tick \/ TwinSavePrice

SpecTwin == InitTwin /\ [][NextTwin]_vars

\* ------------------------------------------------------------------------
\* main()
\* ------------------------------------------------------------------------
\* await data_manager.initialize(): an exception leaves main() at once
MainInitialize ==
    /\ main_pc = "initialize"
    /\ \E sqlite_ok \in BOOLEAN, redis_ok \in BOOLEAN :
          /\ initialize(sqlite_ok, redis_ok)
          /\ startup' = [done |-> TRUE, sqlite_ok |-> sqlite_ok, redis_ok |-> redis_ok]
    /\ main_pc' = IF db_state' = "ready" THEN "create_tasks" ELSE "aborted"
    /\ UNCHANGED <<now, save_calls, n_saves, monitor_started, detector_started,
                   monVars, detVars, fnVars, gqVars, adVars, cfgVars>>

\* the two asyncio.create_task calls, then gather
MainCreateTasks ==
    /\ main_pc = "create_tasks"
    /\ monitor_started' = TRUE
    /\ detector_started' = TRUE
    /\ main_pc' = "gather"
    /\ UNCHANGED <<now, storeVars, ghostVars, monVars, detVars, fnVars, gqVars, adVars, cfgVars>>

\* ------------------------------------------------------------------------
\* PriceMonitor
\* ------------------------------------------------------------------------
FetchPrices == {100}

\* the price_data dict a venue adapter builds for one pair
fetched_price_data(venue, price) ==
    IF venue \in Range(dexes)
    THEN [price |-> price, liquidity |-> 5, timestamp |-> now]
    ELSE [price |-> price, volume |-> 7, timestamp |-> now]

\* What a fetch task can hand to gather: an exception, or the dict of the
\* pairs it priced (empty when nothing was found or an error was caught).
TaskOutcomes(venue) ==
    {[raised |-> TRUE, prices |-> EmptyDict]}
    \cup {[raised |-> FALSE, prices |-> d] :
            d \in UNION {[P -> {fetched_price_data(venue, p) : p \in FetchPrices}] :
                           P \in SUBSET Range(token_pairs)}}

\* gather without return_exceptions: one exception discards the whole batch
collect_results_fail_fast(ids, results) ==
    IF \E w \in Range(ids) : results[w].raised THEN EmptyDict
    ELSE [v \in Range(ids) |-> results[v].prices]

\* the aggregation loop after gather(*tasks, return_exceptions=True)
collect_results(ids, results) ==
    [v \in {w \in Range(ids) : ~results[w].raised} |-> results[v].prices]

\* {**dex_prices, **cex_prices}
merge_dicts(a, b) ==
    [k \in (DOMAIN a) \cup (DOMAIN b) |-> IF k \in DOMAIN b THEN b[k] ELSE a[k]]

\* the pairs of one venue's dict, in configuration order
RECURSIVE venue_items(_, _, _)
venue_items(exchange, prices, i) ==
    IF i > Len(token_pairs) THEN <<>>
    ELSE (IF token_pairs[i] \in DOMAIN prices
          THEN <<[exchange |-> exchange, pair |-> token_pairs[i],
                  price_data |-> prices[token_pairs[i]]]>>
          ELSE <<>>)
         \o venue_items(exchange, prices, i + 1)

\* the iteration order of the nested for loops at lines 45-47
RECURSIVE save_order(_, _)
save_order(prices, i) ==
    LET exchanges == dexes \o cexes IN
    IF i > Len(exchanges) THEN <<>>
    ELSE (IF exchanges[i] \in DOMAIN prices
          THEN venue_items(exchanges[i], prices[exchanges[i]], 1)
          ELSE <<>>)
         \o save_order(prices, i + 1)

\* asyncio.wait(..., return_when=FIRST_COMPLETED) in place of gather
gather_returns_first_completed(ids, state) ==
    \E v \in Range(ids) : state[v] = "done"

\* await asyncio.gather(*tasks, return_exceptions=True) returns when every
\* task it was given has finished
gather_returns(ids, state) == \A v \in Range(ids) : state[v] = "done"

\* _fetch_dex_prices up to its await: one task per DEX
FanOutDex(max_ticks) ==
    /\ monitor_started
    /\ n_ticks < max_ticks
    /\ mon_pc = "idle" \/ (mon_pc \in {"sleep", "error_sleep"} /\ now >= mon_wake)
    /\ task_state' = [v \in DOMAIN task_state |->
                        IF v \in Range(dexes) THEN "running" ELSE "idle"]
    /\ task_result' = [v \in DOMAIN task_result |-> NoResult]
    /\ mon_pc' = "gather_dex"
    /\ UNCHANGED <<now, storeVars, ghostVars, mainVars, detVars, fnVars, dex_prices,
                   all_prices, save_queue, tick_timestamp, mon_wake, n_ticks, gqVars, adVars, cfgVars, mon_errors>>

MonFanOutDex == FanOutDex(MaxTicks)

\* the same step where the loop is followed over several ticks
MonFanOutDexLoop == FanOutDex(MaxLoopTicks)

\* one fetch task (_fetch_dex_price or _fetch_cex_price) runs to its end
TaskFinish ==
    \E v \in DOMAIN task_state :
        /\ task_state[v] = "running"
        /\ \E outcome \in TaskOutcomes(v) :
              task_result' = [task_result EXCEPT ![v] = outcome]
        /\ task_state' = [task_state EXCEPT ![v] = "done"]
        /\ UNCHANGED <<now, storeVars, ghostVars, mainVars, detVars, fnVars, mon_pc,
                       dex_prices, all_prices, save_queue, tick_timestamp, mon_wake,
                       n_ticks, gqVars, adVars, cfgVars, mon_errors>>

\* gather of the DEX tasks returns; _fetch_cex_prices starts one task per CEX
MonCollectDex ==
    /\ mon_pc = "gather_dex"
    /\ gather_returns(dexes, task_state)
    /\ dex_prices' = collect_results(dexes, task_result)
    /\ task_state' = [v \in DOMAIN task_state |->
                        IF v \in Range(cexes) THEN "running" ELSE task_state[v]]
    /\ mon_pc' = "gather_cex"
    /\ UNCHANGED <<now, storeVars, ghostVars, mainVars, detVars, fnVars, task_result,
                   all_prices, save_queue, tick_timestamp, mon_wake, n_ticks, gqVars, adVars, cfgVars, mon_errors>>

\* gather of the CEX tasks returns; the tick takes its timestamp
MonCollectCex ==
    /\ mon_pc = "gather_cex"
    /\ gather_returns(cexes, task_state)
    /\ all_prices' = merge_dicts(dex_prices, collect_results(cexes, task_result))
    /\ tick_timestamp' = now
    /\ save_queue' = save_order(all_prices', 1)
    /\ mon_pc' = "persist"
    /\ UNCHANGED <<now, storeVars, ghostVars, mainVars, detVars, fnVars, task_state,
                   task_result, dex_prices, mon_wake, n_ticks, gqVars, adVars, cfgVars, mon_errors>>

\* an exception that leaves the while loop and ends start_monitoring
tick_exception_propagates == "terminated"

\* except Exception at line 59: logged, then asyncio.sleep(5) inside the loop
tick_exception_handler == "error_sleep"

\* save_price without its try statement: a failed write reaches the caller
save_price_escapes_unguarded(failed) == failed

\* try / except Exception around the body of save_price (lines 102-163):
\* no failure of a write reaches the caller
save_price_escapes(failed) == FALSE

\* one await self.data_manager.save_price(...) of the persist loop
MonSavePrice ==
    /\ mon_pc = "persist"
    /\ save_queue # <<>>
    /\ \E redis_fault \in RedisFaults, sqlite_fault \in BOOLEAN :
        LET item == Head(save_queue)
            raised == use_redis /\ redis_fault # "none"
            escaped == save_price_escapes(raised \/ sqlite_fault) IN
        /\ redis = None => redis_fault = "none"
        /\ raised => ~sqlite_fault
        /\ (raised \/ sqlite_fault) => Cardinality(Faulty(save_calls)) < MaxFaults
        /\ save_price(item.exchange, item.pair, item.price_data, tick_timestamp,
                      redis_fault, sqlite_fault)
        /\ save_calls' = save_calls \cup
              {[exchange |-> item.exchange, pair |-> item.pair,
                point |-> price_point(item.price_data, tick_timestamp),
                redis_raised |-> raised, sqlite_fault |-> sqlite_fault]}
        /\ IF escaped
           THEN /\ save_queue' = <<>>
                /\ mon_pc' = tick_exception_handler
                /\ mon_wake' = now + error_retry_delay
                /\ mon_errors' = Append(mon_errors, [at |-> now, pc |-> mon_pc])
           ELSE /\ save_queue' = Tail(save_queue)
                /\ UNCHANGED <<mon_pc, mon_wake, mon_errors>>
    /\ n_saves' = n_saves + 1
    /\ UNCHANGED <<now, startup, mainVars, detVars, fnVars, task_state,
                   task_result, dex_prices, all_prices, tick_timestamp,
                   n_ticks, gqVars, adVars, cfgVars>>

\* the log line and asyncio.sleep(price_update_interval)
MonSleep ==
    /\ mon_pc = "persist"
    /\ save_queue = <<>>
    /\ mon_pc' = "sleep"
    /\ mon_wake' = now + price_update_interval
    /\ n_ticks' = n_ticks + 1
    /\ UNCHANGED <<now, storeVars, ghostVars, mainVars, detVars, fnVars, task_state,
                   task_result, dex_prices, all_prices, save_queue, tick_timestamp, gqVars, adVars, cfgVars, mon_errors>>

\* A statement of the tick outside the fetch tasks raises: the aggregation
\* after a gather, the persist loop or the log line.
MonTickRaises ==
    /\ Len(mon_errors) < MaxLoopErrors
    /\ \/ mon_pc = "gather_dex" /\ gather_returns(dexes, task_state)
       \/ mon_pc = "gather_cex" /\ gather_returns(cexes, task_state)
       \/ mon_pc = "persist"
    /\ mon_errors' = Append(mon_errors, [at |-> now, pc |-> mon_pc])
    /\ mon_pc' = tick_exception_handler
    /\ mon_wake' = now + error_retry_delay
    /\ save_queue' = <<>>
    /\ UNCHANGED <<now, storeVars, ghostVars, mainVars, detVars, fnVars, gqVars, adVars, cfgVars,
                   task_state, task_result, dex_prices, all_prices, tick_timestamp,
                   n_ticks>>

Init == InitCommon /\ NoAdapterCall /\ DefaultConfig /\ fn_prices = EmptyDict

Next ==
    \/ Tick
    \/ MainInitialize
    \/ MainCreateTasks
    \/ MonFanOutDex
    \/ TaskFinish
    \/ MonCollectDex
    \/ MonCollectCex
    \/ MonSavePrice
    \/ MonSleep

Spec == Init /\ [][Next]_vars

\* ------------------------------------------------------------------------
\* SpecMonLoop: start_monitoring with exceptions at the orchestration level,
\* from the state main() leaves behind when the external cache was
\* unreachable at startup
\* ------------------------------------------------------------------------
InitMonLoop ==
    /\ now = 1
    /\ db_state = "ready"
    /\ redis = None
    /\ redis_attempted = TRUE
    /\ in_memory_cache = EmptyDict
    /\ redis_kv = EmptyDict
    /\ redis_zset = EmptyDict
    /\ prices_table = {}
    /\ startup = [done |-> TRUE, sqlite_ok |-> TRUE, redis_ok |-> FALSE]
    /\ save_calls = {}
    /\ n_saves = 0
    /\ main_pc = "gather"
    /\ monitor_started = TRUE
    /\ detector_started = TRUE
    /\ mon_pc = "idle"
    /\ task_state = [v \in Range(dexes \o cexes) |-> "idle"]
    /\ task_result = [v \in Range(dexes \o cexes) |-> NoResult]
    /\ dex_prices = EmptyDict
    /\ all_prices = EmptyDict
    /\ save_queue = <<>>
    /\ tick_timestamp = 0
    /\ mon_wake = 0
    /\ n_ticks = 0
    /\ mon_errors = <<>>
    /\ det_errors = <<>>
    /\ last_load = NoLoad
    /\ det_pc = "pairs"
    /\ det_idx = 1
    /\ pending = <<>>
    /\ notification_history = EmptyDict
    /\ sent = <<>>
    /\ arbitrage_table = <<>>
    /\ detections = {}
    /\ det_wake = 0
    /\ fn_prices = EmptyDict
    /\ fn_result = <<>>
    /\ fn_done = FALSE
    /\ gq_pc = "loop"
    /\ retry_count = 0
    /\ last_error = None
    /\ gq_attempts = <<>>
    /\ gq_sleeps = <<>>
    /\ gq_exit = "running"
    /\ gq_result = EmptyDict
    /\ gq_parsed = EmptyDict
    /\ ad_result = <<>>
    /\ ad_done = FALSE
    /\ NoAdapterCall
    /\ DefaultConfig

NextMonLoop ==
    \/ Tick
    \/ MonFanOutDex
    \/ TaskFinish
    \/ MonCollectDex
    \/ MonCollectCex
    \/ MonSavePrice
    \/ MonSleep
    \/ MonTickRaises

SpecMonLoop == InitMonLoop /\ [][NextMonLoop]_vars

\* ------------------------------------------------------------------------
\* SpecTicks: the same loop followed over several ticks
\* ------------------------------------------------------------------------
InitTicks == InitMonLoop

NextTicks ==
    \/ Tick
    \/ MonFanOutDexLoop
    \/ TaskFinish
    \/ MonCollectDex
    \/ MonCollectCex
    \/ MonSavePrice
    \/ MonSleep
    \/ MonTickRaises

SpecTicks == InitTicks /\ [][NextTicks]_vars

\* ------------------------------------------------------------------------
\* The detection loop and the notifier
\* ------------------------------------------------------------------------
\* main() always builds the detector with a SlackNotifier object
notifier == "SlackNotifier"

\* the attributes class SlackNotifier defines
SlackNotifier_attributes == {"__init__", "webhook_url", "send_notification"}

\* "{value:.2f}" of a percentage held in hundredths: the nearest integer
round_2f(q) == (2 * q.num + q.den) \div (2 * q.den)

\* ArbitrageDetector._create_notification_message
_create_notification_message(o) ==
    <<"arbitrage", o.pair, o.buy_exchange, o.sell_exchange,
      round_2f(o.price_diff_percent), o.fees_percent, o.slippage_percent,
      round_2f(o.net_profit_percent), o.buy_price, o.sell_price, o.timestamp>>

\* SlackNotifier.send_notification: the messages the sink was called with
send_notification(log, message) == Append(log, message)

\* DataManager.save_arbitrage_opportunity: INSERT INTO arbitrage_opportunities
save_arbitrage_opportunity(table, o) == Append(table, o)

\* the call of the sink at line 166 raises: self.notifier.is_enabled is
\* evaluated on an object that has no such attribute (AttributeError)
sink_fails == notifier # None /\ "is_enabled" \notin SlackNotifier_attributes

\* a body of _notify_arbitrage without the try statement lets it through
notify_escapes_unguarded(raised) == raised

\* _notify_arbitrage lets an exception of its body through to its caller:
\* never, the whole body is inside try/except Exception (lines 161-176)
notify_escapes(raised) == FALSE

\* ArbitrageDetector._notify_arbitrage.  Evaluating self.notifier.is_enabled
\* on an object without that attribute raises AttributeError, which the
\* except clause of line 175 catches: the send and the save are skipped.
_notify_arbitrage(o) ==
    LET message == _create_notification_message(o) IN
    IF sink_fails
    THEN UNCHANGED <<sent, arbitrage_table>>
    ELSE /\ sent' = IF notifier # None THEN send_notification(sent, message) ELSE sent
         /\ arbitrage_table' = save_arbitrage_opportunity(arbitrage_table, o)

\* f"{buy_exchange}_{sell_exchange}_{pair_str}"
opportunity_key(o) == <<o.buy_exchange, o.sell_exchange, o.pair>>

\* the cooldown test of lines 49-53
in_cooldown(history, key, current_time) ==
    /\ key \in DOMAIN history
    /\ current_time - history[key] < notification_cooldown

\* the entry written only for an opportunity that reached the durable log
update_history_if_persisted(history, key, current_time, persisted) ==
    IF persisted THEN Put(history, key, current_time) ELSE history

\* self.notification_history[opportunity_key] = current_time at line 59,
\* the statement after the await of _notify_arbitrage, whatever it did
update_history(history, key, current_time, persisted) == Put(history, key, current_time)

\* the pair is skipped when one venue reports where two are needed
skip_pair_below_one(prices) == DOMAIN prices = {} \/ Cardinality(DOMAIN prices) < 1

\* a freshness test: the pair is skipped unless all points have one timestamp
skip_pair_unless_same_tick(prices) ==
    \/ DOMAIN prices = {}
    \/ Cardinality(DOMAIN prices) < 2
    \/ Cardinality({prices[e].timestamp : e \in DOMAIN prices}) > 1

\* "if not prices or len(prices) < 2: continue" at line 36
skip_pair(prices) == DOMAIN prices = {} \/ Cardinality(DOMAIN prices) < 2

\* the body of "for pair in self.config.token_pairs" up to the inner loop
DetLoadPair ==
    /\ detector_started
    /\ det_pc = "pairs"
    /\ pending = <<>>
    /\ det_idx <= Len(token_pairs)
    /\ LET pair_str == token_pairs[det_idx]
           prices == get_latest_prices(pair_str)
           arbitrage_opportunities ==
               IF skip_pair(prices) THEN <<>> ELSE _detect_arbitrage(pair_str, prices)
       IN /\ pending' = arbitrage_opportunities
          /\ last_load' = [pair |-> pair_str,
                           venues |-> Cardinality(DOMAIN prices),
                           computed |-> ~skip_pair(prices),
                           opportunities |-> Len(arbitrage_opportunities),
                           stamps |-> {prices[e].timestamp : e \in DOMAIN prices}]
    /\ det_idx' = det_idx + 1
    /\ UNCHANGED <<now, storeVars, ghostVars, mainVars, monVars, fnVars, det_pc,
                   notification_history, sent, arbitrage_table, detections, det_wake, gqVars, adVars, cfgVars, det_errors>>

\* an exception that leaves the while loop and ends start_detection
pass_exception_propagates == "terminated"

\* except Exception at line 64: logged, then asyncio.sleep(5) inside the loop
pass_exception_handler == "error_sleep"

\* one iteration of "for opportunity in arbitrage_opportunities"; an
\* exception that came out of _notify_arbitrage would reach line 64
DetHandleOpportunity ==
    /\ det_pc = "pairs"
    /\ pending # <<>>
    /\ LET o == Head(pending)
           key == opportunity_key(o)
           current_time == now
           suppressed == in_cooldown(notification_history, key, current_time)
           escaped == ~suppressed /\ notify_escapes(sink_fails)
       IN /\ IF suppressed
             THEN UNCHANGED <<notification_history, sent, arbitrage_table>>
             ELSE IF escaped
             THEN UNCHANGED <<notification_history, sent, arbitrage_table>>
             ELSE /\ _notify_arbitrage(o)
                  /\ notification_history' =
                        update_history(notification_history, key, current_time,
                                       Len(arbitrage_table') > Len(arbitrage_table))
          /\ detections' = detections \cup
                {[opportunity |-> o, time |-> current_time,
                  venues |-> last_load.venues,
                  sink_raised |-> ~suppressed /\ sink_fails,
                  remaining |-> Len(pending) - 1,
                  had_entry |-> key \in DOMAIN notification_history,
                  last_notified |-> Get(notification_history, key, 0),
                  entry_after |-> Get(notification_history', key, -1),
                  sends |-> Len(sent') - Len(sent),
                  saves |-> Len(arbitrage_table') - Len(arbitrage_table)]}
          /\ IF escaped
             THEN /\ det_errors' = Append(det_errors, [at |-> now, history |-> notification_history])
                  /\ det_pc' = pass_exception_handler
                  /\ det_wake' = now + error_retry_delay
                  /\ pending' = <<>>
             ELSE /\ pending' = Tail(pending)
                  /\ UNCHANGED <<det_pc, det_wake, det_errors>>
    /\ UNCHANGED <<now, storeVars, ghostVars, mainVars, monVars, fnVars,
                   det_idx, gqVars, adVars, cfgVars, last_load>>

\* asyncio.sleep(price_update_interval) after the last pair
DetSleep ==
    /\ det_pc = "pairs"
    /\ pending = <<>>
    /\ det_idx > Len(token_pairs)
    /\ det_pc' = "sleep"
    /\ det_wake' = now + price_update_interval
    /\ UNCHANGED <<now, storeVars, ghostVars, mainVars, monVars, fnVars, det_idx,
                   pending, notification_history, sent, arbitrage_table, detections, gqVars, adVars, cfgVars, det_errors, last_load>>

\* the sleep ends and the next pass starts
DetWake ==
    /\ det_pc \in {"sleep", "error_sleep"}
    /\ now >= det_wake
    /\ det_pc' = "pairs"
    /\ det_idx' = 1
    /\ UNCHANGED <<now, storeVars, ghostVars, mainVars, monVars, fnVars, pending,
                   notification_history, sent, arbitrage_table, detections, det_wake, gqVars, adVars, cfgVars, det_errors, last_load>>

\* A statement of the pass raises (get_latest_prices and _notify_arbitrage
\* catch their own exceptions, _detect_arbitrage does not): the two for
\* loops are abandoned.
DetPassRaises ==
    /\ detector_started
    /\ det_pc = "pairs"
    /\ Len(det_errors) < MaxLoopErrors
    /\ det_errors' = Append(det_errors, [at |-> now, history |-> notification_history])
    /\ det_pc' = pass_exception_handler
    /\ det_wake' = now + error_retry_delay
    /\ pending' = <<>>
    /\ UNCHANGED <<now, storeVars, ghostVars, mainVars, monVars, fnVars, gqVars, adVars, cfgVars,
                   det_idx, notification_history, sent, arbitrage_table, detections, last_load>>

\* a price point of the monitoring loop reaches the store meanwhile
MonitorWrites ==
    /\ monitor_started
    /\ n_saves < MaxSaves
    /\ \E exchange \in Range(dexes \o cexes), pair \in Range(token_pairs),
          price \in {100, 102} :
        LET price_data == fetched_price_data(exchange, price) IN
        /\ save_price(exchange, pair, price_data, now, "none", FALSE)
        /\ save_calls' = save_calls \cup
              {[exchange |-> exchange, pair |-> pair,
                point |-> price_point(price_data, now),
                redis_raised |-> FALSE, sqlite_fault |-> FALSE]}
    /\ n_saves' = n_saves + 1
    /\ UNCHANGED <<now, startup, mainVars, monVars, detVars, fnVars, gqVars, adVars, cfgVars>>

NextDetect ==
    \/ Tick
    \/ MainInitialize
    \/ MainCreateTasks
    \/ MonitorWrites
    \/ DetLoadPair
    \/ DetHandleOpportunity
    \/ DetSleep
    \/ DetWake
    \/ DetPassRaises

SpecDetect == Init /\ [][NextDetect]_vars

\* ------------------------------------------------------------------------
\* SpecPass: the detection loop alone, over a store in which one tick of the
\* monitor has saved a price of every venue (degraded mode, time 0)
\* ------------------------------------------------------------------------
PassPrices == {100, 102}

\* the in-process cache after save_price of each venue's point, in order
RECURSIVE saved_cache(_, _)
saved_cache(venues, price_of) ==
    IF venues = <<>> THEN EmptyDict
    ELSE LET v == venues[Len(venues)] IN
         save_in_memory(saved_cache(SubSeq(venues, 1, Len(venues) - 1), price_of),
                        v, token_pairs[1], fetched_price_data(v, price_of[v]), 0)

\* the prices table after the same calls
saved_rows(venues, price_of) ==
    {[exchange |-> v, pair |-> token_pairs[1],
      price |-> price_point(fetched_price_data(v, price_of[v]), 0).price,
      liquidity |-> price_point(fetched_price_data(v, price_of[v]), 0).liquidity,
      timestamp |-> 0] : v \in Range(venues)}

InitPass ==
    /\ now = 0
    /\ db_state = "ready"
    /\ redis = None
    /\ redis_attempted = TRUE
    /\ \E price_of \in [Range(dexes \o cexes) -> PassPrices] :
          /\ in_memory_cache = saved_cache(dexes \o cexes, price_of)
          /\ prices_table = saved_rows(dexes \o cexes, price_of)
          /\ save_calls = {[exchange |-> v, pair |-> token_pairs[1],
                            point |-> price_point(fetched_price_data(v, price_of[v]), 0),
                            redis_raised |-> FALSE, sqlite_fault |-> FALSE] :
                               v \in Range(dexes \o cexes)}
    /\ redis_kv = EmptyDict
    /\ redis_zset = EmptyDict
    /\ startup = [done |-> TRUE, sqlite_ok |-> TRUE, redis_ok |-> FALSE]
    /\ n_saves = Len(dexes \o cexes)
    /\ main_pc = "gather"
    /\ monitor_started = TRUE
    /\ detector_started = TRUE
    /\ mon_pc = "sleep"
    /\ task_state = [v \in Range(dexes \o cexes) |-> "idle"]
    /\ task_result = [v \in Range(dexes \o cexes) |-> NoResult]
    /\ dex_prices = EmptyDict
    /\ all_prices = EmptyDict
    /\ save_queue = <<>>
    /\ tick_timestamp = 0
    /\ mon_wake = price_update_interval
    /\ n_ticks = 1
    /\ mon_errors = <<>>
    /\ det_errors = <<>>
    /\ last_load = NoLoad
    /\ det_pc = "pairs"
    /\ det_idx = 1
    /\ pending = <<>>
    /\ notification_history = EmptyDict
    /\ sent = <<>>
    /\ arbitrage_table = <<>>
    /\ detections = {}
    /\ det_wake = 0
    /\ fn_prices = EmptyDict
    /\ fn_result = <<>>
    /\ fn_done = FALSE
    /\ gq_pc = "loop"
    /\ retry_count = 0
    /\ last_error = None
    /\ gq_attempts = <<>>
    /\ gq_sleeps = <<>>
    /\ gq_exit = "running"
    /\ gq_result = EmptyDict
    /\ gq_parsed = EmptyDict
    /\ ad_result = <<>>
    /\ ad_done = FALSE
    /\ NoAdapterCall
    /\ DefaultConfig

NextPass ==
    \/ Tick
    \/ DetLoadPair
    \/ DetHandleOpportunity
    \/ DetSleep
    \/ DetWake

SpecPass == InitPass /\ [][NextPass]_vars

\* ------------------------------------------------------------------------
\* Venue adapters: the parse_*_response functions and the inline adapter of
\* PriceMonitor
\* ------------------------------------------------------------------------
\* str.upper() on the token symbols that occur
upper(s) ==
    CASE s = "eth" -> "ETH"
      [] s = "jpy" -> "JPY"
      [] s = "weth" -> "WETH"
      [] OTHER -> s

\* list.sort(key=float(p[field]), reverse=True): stable, descending
RECURSIVE sort_pools_desc(_, _)
sort_pools_desc(s, field) ==
    IF Len(s) <= 1 THEN s
    ELSE LET rest == sort_pools_desc(SubSeq(s, 1, Len(s) - 1), field)
             x == s[Len(s)]
             k == Cardinality({i \in DOMAIN rest : Get(rest[i], field, 0) >= Get(x, field, 0)})
         IN SubSeq(rest, 1, k) \o <<x>> \o SubSeq(rest, k + 1, Len(rest))

\* None where a JSON object is expected, held as a record of its own so that
\* it can be told from every object
json_null == [null |-> TRUE]

\* response.get("data", {}).get(key, []); on a null data the second get
\* raises AttributeError, which every caller catches and answers with no point
response_list(response, key) ==
    IF "data" \in DOMAIN response /\ response.data # json_null
    THEN Get(response.data, key, <<>>)
    ELSE <<>>

\* the test of lines 42-43, 124-125 and 210-211
symbols_match(pool, base_upper, quote_upper) ==
    LET token0_symbol == upper(pool.token0.symbol)
        token1_symbol == upper(pool.token1.symbol)
    IN \/ token0_symbol = base_upper /\ token1_symbol = quote_upper
       \/ token0_symbol = quote_upper /\ token1_symbol = base_upper

\* the price direction chosen at lines 62-69, 142-149 and 237-244
directed_price(top_pool, base_upper) ==
    IF upper(top_pool.token0.symbol) = base_upper
    THEN [price |-> top_pool.token1Price,
          base_token |-> top_pool.token0.symbol, quote_token |-> top_pool.token1.symbol]
    ELSE [price |-> top_pool.token0Price,
          base_token |-> top_pool.token1.symbol, quote_token |-> top_pool.token0.symbol]

\* the dict appended to results
parsed_point(top_pool, directed, liquidity, n_pools, n_valid) ==
    [pool_id |-> top_pool.id, price |-> directed.price, liquidity |-> liquidity,
     base_token |-> directed.base_token, quote_token |-> directed.quote_token,
     timestamp |-> now, selected_from |-> n_pools, valid |-> n_valid]

\* parse_uniswap_response
parse_uniswap_response(response, base_token, quote_token) ==
    IF "errors" \in DOMAIN response THEN <<>>
    ELSE
      LET pools == response_list(response, "pools")
          base_upper == upper(base_token)
          quote_upper == upper(quote_token)
          valid_pools == sort_pools_desc(
              SelectSeq(pools, LAMBDA pool : /\ symbols_match(pool, base_upper, quote_upper)
                                             /\ Get(pool, "liquidity", 0) > 0),
              "liquidity")
      IN IF valid_pools = <<>> THEN <<>>
         ELSE LET top_pool == valid_pools[1]
              IN <<parsed_point(top_pool, directed_price(top_pool, base_upper),
                                Get(top_pool, "liquidity", 0), Len(pools), Len(valid_pools))>>

\* parse_sushiswap_response: the first pair with two positive prices
parse_sushiswap_response(response, base_token, quote_token) ==
    IF "errors" \in DOMAIN response THEN <<>>
    ELSE
      LET pairs == response_list(response, "pairs")
          base_upper == upper(base_token)
          quote_upper == upper(quote_token)
          valid_pairs ==
              SelectSeq(pairs, LAMBDA pair : /\ symbols_match(pair, base_upper, quote_upper)
                                             /\ Get(pair, "token0Price", 0) > 0
                                             /\ Get(pair, "token1Price", 0) > 0)
      IN IF valid_pairs = <<>> THEN <<>>
         ELSE LET top_pair == valid_pairs[1]
              IN <<parsed_point(top_pair, directed_price(top_pair, base_upper),
                                Get(top_pair, "reserveUSD", 0), Len(pairs), Len(valid_pairs))>>

\* parse_quickswap_response: pools with two positive prices, by locked value
parse_quickswap_response(response, base_token, quote_token) ==
    IF "errors" \in DOMAIN response THEN <<>>
    ELSE
      LET pools == response_list(response, "pools")
          base_upper == upper(base_token)
          quote_upper == upper(quote_token)
          valid_pools == sort_pools_desc(
              SelectSeq(pools, LAMBDA pool : /\ symbols_match(pool, base_upper, quote_upper)
                                             /\ Get(pool, "token0Price", 0) > 0
                                             /\ Get(pool, "token1Price", 0) > 0),
              "totalValueLockedUSD")
      IN IF valid_pools = <<>> THEN <<>>
         ELSE LET top_pool == valid_pools[1]
              IN <<parsed_point(top_pool, directed_price(top_pool, base_upper),
                                Get(top_pool, "totalValueLockedUSD", 0),
                                Len(pools), Len(valid_pools))>>

\* the for loop of lines 330-334: the last token with the wanted symbol;
\* tested_before is the symbol the if chain tests first ("" for the first arm)
token_data(tokens, wanted_upper, tested_before) ==
    LET hits == {i \in DOMAIN tokens : /\ upper(tokens[i].symbol) # tested_before
                                       /\ upper(tokens[i].symbol) = wanted_upper}
    IN IF hits = {} THEN <<>> ELSE <<tokens[CHOOSE i \in hits : \A j \in hits : j <= i]>>

\* parse_balancer_response: the price is the ratio of the two token weights
parse_balancer_response(response, base_token, quote_token) ==
    IF "errors" \in DOMAIN response THEN <<>>
    ELSE
      LET pools == response_list(response, "pools")
          base_upper == upper(base_token)
          quote_upper == upper(quote_token)
          token_symbols(pool) ==
              {upper(Get(t, "symbol", "")) : t \in Range(Get(pool, "tokens", <<>>))}
          valid_pools == sort_pools_desc(
              SelectSeq(pools, LAMBDA pool : /\ base_upper \in token_symbols(pool)
                                             /\ quote_upper \in token_symbols(pool)
                                             /\ Get(pool, "totalLiquidity", 0) > 0),
              "totalLiquidity")
      IN IF valid_pools = <<>> THEN <<>>
         ELSE
           LET top_pool == valid_pools[1]
               tokens == Get(top_pool, "tokens", <<>>)
               base_token_data == token_data(tokens, base_upper, "")
               quote_token_data == token_data(tokens, quote_upper, base_upper)
           IN IF base_token_data = <<>> \/ quote_token_data = <<>> THEN <<>>
              ELSE
                LET base_weight == base_token_data[1].weight
                    quote_weight == quote_token_data[1].weight
                IN IF base_weight > 0 /\ quote_weight > 0
                   THEN <<[pool_id |-> top_pool.id,
                           price |-> [num |-> quote_weight, den |-> base_weight],
                           liquidity |-> Get(top_pool, "totalLiquidity", 0),
                           base_token |-> base_token_data[1].symbol,
                           quote_token |-> quote_token_data[1].symbol,
                           timestamp |-> now, selected_from |-> Len(pools),
                           valid |-> Len(valid_pools)]>>
                   ELSE <<>>

\* PriceMonitor._fetch_uniswap_prices for one pair, from the JSON body of a
\* 200 response: the first pool of the list, whatever its symbols are
_fetch_uniswap_prices(data, base, quote) ==
    LET pools == response_list(data, "pools") IN
    IF pools = <<>> THEN <<>>
    ELSE LET pool == pools[1]
             token0_symbol == pool.token0.symbol
             price == IF upper(token0_symbol) = base THEN pool.token1Price
                      ELSE pool.token0Price
         IN <<[pool_id |-> pool.id, price |-> price,
               liquidity |-> Get(pool, "liquidity", 0), timestamp |-> now]>>

Parsers == {"parse_uniswap_response", "parse_sushiswap_response",
            "parse_quickswap_response", "parse_balancer_response"}

Adapters == Parsers \cup {"_fetch_uniswap_prices"}

\* the adapter called by name
adapter(name, response, base, quote) ==
    CASE name = "parse_uniswap_response" -> parse_uniswap_response(response, base, quote)
      [] name = "parse_sushiswap_response" -> parse_sushiswap_response(response, base, quote)
      [] name = "parse_quickswap_response" -> parse_quickswap_response(response, base, quote)
      [] name = "parse_balancer_response" -> parse_balancer_response(response, base, quote)
      [] name = "_fetch_uniswap_prices" -> _fetch_uniswap_prices(response, base, quote)

\* ------------------------------------------------------------------------
\* SpecAdapters: one adapter called directly on one response body
\* ------------------------------------------------------------------------
MaxPools == 2

\* token0 and token1 of a pool: the pair, the pair reversed, the pair with
\* other letter case, and pools that match only on one side
TokenOrders == {<<"ETH", "JPY">>, <<"JPY", "ETH">>, <<"eth", "JPY">>,
                <<"WETH", "JPY">>, <<"JPY", "WETH">>}

Liquidities == {0, 1, 2}

\* the base and quote symbols as configured in TOKEN_PAIRS
ConfiguredPairs == {<<"ETH", "JPY">>, <<"eth", "jpy">>}

\* the i-th pool of a response; every venue's liquidity field carries the
\* same amount and the prices tell the pools and the directions apart
Pool(i, order, liquidity) ==
    [id |-> i,
     token0 |-> [symbol |-> order[1]],
     token1 |-> [symbol |-> order[2]],
     token0Price |-> 100 * i + 1,
     token1Price |-> 100 * i + 2,
     liquidity |-> liquidity,
     reserveUSD |-> liquidity,
     totalValueLockedUSD |-> liquidity,
     totalLiquidity |-> liquidity,
     tokens |-> <<[symbol |-> order[1], weight |-> 2 * i + 1],
                  [symbol |-> order[2], weight |-> 2 * i + 2]>>]

PoolLists ==
    UNION {{[i \in 1..n |-> Pool(i, c[i][1], c[i][2])] :
               c \in [1..n -> TokenOrders \X Liquidities]} : n \in 0..MaxPools}

\* a JSON body: the pools under the venue's list key, with or without errors
Body(pools, with_errors) ==
    LET data == [data |-> [pools |-> pools, pairs |-> pools]]
    IN IF with_errors THEN Put(data, "errors", <<"error">>) ELSE data

ResponseBodies == {Body(pools, e) : pools \in PoolLists, e \in BOOLEAN}

InitAdapters ==
    /\ InitCommon
    /\ DefaultConfig
    /\ fn_prices = EmptyDict
    /\ ad_name \in Adapters
    /\ ad_response \in ResponseBodies
    /\ \E pair \in ConfiguredPairs : ad_base = pair[1] /\ ad_quote = pair[2]

AdapterCall ==
    /\ ~ad_done
    /\ ad_result' = adapter(ad_name, ad_response, ad_base, ad_quote)
    /\ ad_done' = TRUE
    /\ UNCHANGED <<now, storeVars, ghostVars, mainVars, monVars, detVars, fnVars, gqVars,
                   cfgVars, ad_name, ad_response, ad_base, ad_quote>>

NextAdapters == AdapterCall

SpecAdapters == InitAdapters /\ [][NextAdapters]_vars

\* ------------------------------------------------------------------------
\* GraphQLClient.execute
\* ------------------------------------------------------------------------
max_retries == 3

retry_delay == 2

\* JSON bodies a 200 response can carry: data, data with errors, errors only
GqBodies == {Body(<<Pool(1, <<"ETH", "JPY">>, 2)>>, FALSE),
             Body(<<Pool(1, <<"ETH", "JPY">>, 2)>>, TRUE),
             Put(EmptyDict, "errors", <<"error">>)}

\* What one session.post can meet: asyncio.TimeoutError, another exception
\* of the transport, or a response with a status whose body can be read
\* (response.text(), response.json()) or raises while being read.
AttemptOutcomes ==
    {[kind |-> k, status |-> 0, readable |-> FALSE, body |-> EmptyDict] :
        k \in {"timeout", "connection_error"}}
    \cup {[kind |-> "response", status |-> 500, readable |-> r, body |-> EmptyDict] :
            r \in BOOLEAN}
    \cup {[kind |-> "response", status |-> 200, readable |-> FALSE, body |-> EmptyDict]}
    \cup {[kind |-> "response", status |-> 200, readable |-> TRUE, body |-> b] :
            b \in GqBodies}

\* an attempt that treats a non-200 status like a transport error
attempt_step_retries_http_error(outcome) ==
    IF outcome.kind = "response" /\ outcome.readable /\ outcome.status = 200
    THEN "return_data"
    ELSE "retry"

\* an attempt that raises on a body carrying errors
attempt_step_retries_graphql_errors(outcome) ==
    IF outcome.kind = "response" /\ outcome.readable
    THEN IF outcome.status # 200 THEN "return_http_error"
         ELSE IF "errors" \in DOMAIN outcome.body THEN "retry"
         ELSE "return_data"
    ELSE "retry"

\* the body of the try block, lines 83-108: how one attempt ends
attempt_step(outcome) ==
    IF outcome.kind = "response" /\ outcome.readable
    THEN IF outcome.status # 200 THEN "return_http_error" ELSE "return_data"
    ELSE "retry"

\* a loop that allows one attempt more
loop_condition_one_more(count) == count <= max_retries + 1

\* while retry_count <= self.max_retries
loop_condition(count) == count <= max_retries

\* last_error as set by the two except clauses
error_text(outcome) ==
    IF outcome.kind = "timeout" THEN "Request timed out" ELSE "str(e)"

\* {"data": None, "errors": [{"message": ...}]}
error_envelope(message) == [data |-> json_null, errors |-> <<[message |-> message]>>]

\* the same delay before every retry
backoff_constant(count) == retry_delay

\* self.retry_delay * retry_count at line 112, retry_count already incremented
backoff(count) == retry_delay * count

\* one pass through the while body
GqAttempt ==
    /\ gq_pc = "loop"
    /\ loop_condition(retry_count)
    /\ \E outcome \in AttemptOutcomes :
        /\ gq_attempts' = Append(gq_attempts, outcome)
        /\ CASE attempt_step(outcome) = "return_http_error" ->
                  /\ gq_result' = error_envelope(<<"HTTP error", outcome.status>>)
                  /\ gq_exit' = "http_error"
                  /\ gq_pc' = "returned"
                  /\ UNCHANGED <<retry_count, last_error, gq_sleeps>>
             [] attempt_step(outcome) = "return_data" ->
                  /\ gq_result' = outcome.body
                  /\ gq_exit' = "response"
                  /\ gq_pc' = "returned"
                  /\ UNCHANGED <<retry_count, last_error, gq_sleeps>>
             [] attempt_step(outcome) = "retry" ->
                  /\ last_error' = error_text(outcome)
                  /\ retry_count' = retry_count + 1
                  /\ IF retry_count' <= max_retries
                     THEN /\ gq_pc' = "sleep"
                          /\ gq_sleeps' = Append(gq_sleeps, backoff(retry_count'))
                     ELSE UNCHANGED <<gq_pc, gq_sleeps>>
                  /\ UNCHANGED <<gq_result, gq_exit>>
    /\ UNCHANGED <<now, storeVars, ghostVars, mainVars, monVars, detVars, fnVars,
                   gq_parsed, adVars, cfgVars>>

\* asyncio.sleep(self.retry_delay * retry_count) returns
GqBackoffEnds ==
    /\ gq_pc = "sleep"
    /\ gq_pc' = "loop"
    /\ UNCHANGED <<now, storeVars, ghostVars, mainVars, monVars, detVars, fnVars,
                   retry_count, last_error, gq_attempts, gq_sleeps, gq_exit, gq_result,
                   gq_parsed, adVars, cfgVars>>

\* the loop condition fails: lines 115-117
GqAllFailed ==
    /\ gq_pc = "loop"
    /\ ~loop_condition(retry_count)
    /\ gq_result' = error_envelope(<<"All requests failed", last_error>>)
    /\ gq_exit' = "exhausted"
    /\ gq_pc' = "returned"
    /\ UNCHANGED <<now, storeVars, ghostVars, mainVars, monVars, detVars, fnVars,
                   retry_count, last_error, gq_attempts, gq_sleeps, gq_parsed, adVars, cfgVars>>

\* the caller hands the return value to the parsers
GqParse ==
    /\ gq_pc = "returned"
    /\ gq_parsed = EmptyDict
    /\ gq_parsed' = [p \in Parsers |-> adapter(p, gq_result, "ETH", "JPY")]
    /\ UNCHANGED <<now, storeVars, ghostVars, mainVars, monVars, detVars, fnVars,
                   gq_pc, retry_count, last_error, gq_attempts, gq_sleeps, gq_exit,
                   gq_result, adVars, cfgVars>>

InitClient == InitCommon /\ NoAdapterCall /\ DefaultConfig /\ fn_prices = EmptyDict

NextClient == GqAttempt \/ GqBackoffEnds \/ GqAllFailed \/ GqParse

SpecClient == InitClient /\ [][NextClient]_vars

\* every post ends (ClientTimeout bounds it) and every sleep ends
SpecClientLive == SpecClient /\ WF_vars(NextClient)

\* ------------------------------------------------------------------------
\* Properties of the price store (SpecStore)
\* ------------------------------------------------------------------------
RowOf(exchange, pair, point) ==
    [exchange |-> exchange, pair |-> pair, price |-> point.price,
     liquidity |-> point.liquidity, timestamp |-> point.timestamp]

\* C1: for every venue that get_latest_prices reports, the reported point
\* carries the greatest timestamp among the points written for that
\* (venue, pair): an older write never replaces a newer latest value.
C1_LatestIsGreatestTimestamp ==
    \A pair \in Range(token_pairs) :
        LET latest == get_latest_prices(pair) IN
        \A e \in DOMAIN latest :
            \A c \in save_calls :
                (c.exchange = e /\ c.pair = pair /\ ~c.redis_raised)
                    => c.point.timestamp <= latest[e].timestamp

\* C6: every save_price call whose durable insert does not itself fail
\* leaves a row for its (exchange, pair, timestamp) in the prices table,
\* also when a cache command of that call raised.
C6_EverySaveReachesDurableLog ==
    \A c \in save_calls :
        ~c.sqlite_fault =>
            \E r \in prices_table : /\ r.exchange = c.exchange
                                    /\ r.pair = c.pair
                                    /\ r.timestamp = c.point.timestamp

\* C9: when the cache connection fails at startup, initialize still ends
\* ready, and from then on self.redis stays None, no cache key is ever
\* written, and every saved point is served from the in-process map.
C9_DegradedModeIsPermanent ==
    (startup.done /\ startup.sqlite_ok /\ ~startup.redis_ok) =>
        /\ db_state = "ready"
        /\ redis = None
        /\ redis_kv = EmptyDict
        /\ redis_zset = EmptyDict
        /\ \A c \in save_calls :
              /\ price_key(c.exchange, c.pair) \in DOMAIN in_memory_cache
              /\ c.exchange \in DOMAIN get_latest_prices(c.pair)
              /\ get_latest_prices(c.pair)[c.exchange]
                   = in_memory_cache[price_key(c.exchange, c.pair)]

C9_Witness ==
    /\ startup.done /\ startup.sqlite_ok /\ ~startup.redis_ok
    /\ n_saves >= 2
    /\ now >= 1
    /\ get_latest_prices(token_pairs[1]) # EmptyDict

\* C10: with the fast tier disabled and a durable log that accepts every
\* insert, each point that get_latest_prices or get_price_history returns
\* is a row of the prices table, and the latest point of a key is the row
\* with the greatest timestamp of that key.
C10_FallbackConsistentWithDurableLog ==
    (db_state = "ready" /\ redis = None /\ Faulty(save_calls) = {}) =>
        \A pair \in Range(token_pairs), e \in Range(dexes \o cexes) :
            /\ e \in DOMAIN get_latest_prices(pair) =>
                 /\ RowOf(e, pair, get_latest_prices(pair)[e]) \in prices_table
                 /\ \A r \in prices_table :
                       (r.exchange = e /\ r.pair = pair)
                          => r.timestamp <= get_latest_prices(pair)[e].timestamp
            /\ \A start_time \in 0..MaxTime, end_time \in 0..MaxTime :
                 \A item \in Range(get_price_history(e, pair, start_time, end_time)) :
                     RowOf(e, pair, item) \in prices_table

\* C11: a point that get_latest_prices returns is never older than the
\* cache expiry: once more than cache_ttl has passed since the timestamp of
\* the latest point of a (venue, pair), the venue is reported as absent.
C11_LatestNeverOlderThanTtl ==
    db_state = "ready" =>
        \A pair \in Range(token_pairs) :
            LET latest == get_latest_prices(pair) IN
            \A e \in DOMAIN latest : now - latest[e].timestamp <= cache_ttl

\* C12: the prices table holds at most one row per (exchange, pair,
\* timestamp), whatever save_price calls were made: saving the same key
\* twice leaves a single row.
C12_OneRowPerKey ==
    \A r1 \in prices_table : \A r2 \in prices_table :
        (r1.exchange = r2.exchange /\ r1.pair = r2.pair /\ r1.timestamp = r2.timestamp)
            => r1 = r2

\* the same key saved twice with different prices, both inserts succeeding
C12_Witness ==
    \E c1 \in save_calls : \E c2 \in save_calls \ {c1} :
        /\ c1.exchange = c2.exchange /\ c1.pair = c2.pair
        /\ c1.point.timestamp = c2.point.timestamp
        /\ c1.point.price # c2.point.price
        /\ Faulty({c1, c2}) = {}
        /\ Cardinality({r \in prices_table : /\ r.exchange = c1.exchange
                                             /\ r.pair = c1.pair
                                             /\ r.timestamp = c1.point.timestamp}) = 1

\* ------------------------------------------------------------------------
\* Properties of _detect_arbitrage (SpecFn)
\* ------------------------------------------------------------------------
Positive(prices) ==
    {e \in DOMAIN prices : "price" \in DOMAIN prices[e] /\ prices[e].price > 0}

Emitted(result, buy, sell) ==
    {k \in DOMAIN result : result[k].buy_exchange = buy /\ result[k].sell_exchange = sell}

\* C5: for venues X, Y with positive prices an opportunity buying at X and
\* selling at Y is emitted iff (pY - pX) / pX * 100 exceeds fee(X) + fee(Y) +
\* slippage_tolerance + arbitrage_threshold; each emitted record has
\* net_profit_percent = price_diff_percent - (fees_percent + slippage_percent)
\* and net_profit_percent > arbitrage_threshold.
C5_OpportunityIffAboveCost ==
    fn_done =>
        /\ \A X \in Positive(fn_prices) : \A Y \in Positive(fn_prices) \ {X} :
              LET pX == fn_prices[X].price
                  pY == fn_prices[Y].price
                  fee(v) == IF v \in DOMAIN dex_fee_percent THEN dex_fee_percent[v]
                            ELSE IF v \in DOMAIN cex_fees THEN cex_fees[v]
                            ELSE default_cex_fee
              IN (Emitted(fn_result, X, Y) # {})
                 <=> ((pY - pX) * 10000
                        > (fee(X) + fee(Y) + slippage_tolerance + arbitrage_threshold) * pX)
        /\ \A k \in DOMAIN fn_result :
              LET o == fn_result[k] IN
              /\ o.buy_exchange \in Positive(fn_prices)
              /\ o.sell_exchange \in Positive(fn_prices)
              /\ o.buy_price = fn_prices[o.buy_exchange].price
              /\ o.sell_price = fn_prices[o.sell_exchange].price
              /\ o.net_profit_percent.den > 0 /\ o.price_diff_percent.den > 0
              /\ o.net_profit_percent.num * o.price_diff_percent.den
                   = (o.price_diff_percent.num
                        - (o.fees_percent + o.slippage_percent) * o.price_diff_percent.den)
                     * o.net_profit_percent.den
              /\ o.net_profit_percent.num > arbitrage_threshold * o.net_profit_percent.den

\* an opportunity emitted next to a pair that sits exactly on the boundary
C5_Witness ==
    /\ fn_done
    /\ fn_result # <<>>
    /\ \E X \in Positive(fn_prices) : \E Y \in Positive(fn_prices) \ {X} :
          /\ (fn_prices[Y].price - fn_prices[X].price) * 10000
               = (_get_exchange_fee(X) + _get_exchange_fee(Y) + slippage_tolerance
                    + arbitrage_threshold) * fn_prices[X].price
          /\ Emitted(fn_result, X, Y) = {}

\* ------------------------------------------------------------------------
\* Properties of the detection loop (SpecDetect)
\* ------------------------------------------------------------------------
\* C2: an opportunity whose key was last emitted less than
\* notification_cooldown ago is not sent and leaves the cooldown entry as it
\* was; every other detected opportunity (first of its key, or cooldown
\* elapsed) is sent to the Notification Sink and restarts the cooldown.
C2_CooldownGovernsSending ==
    \A d \in detections :
        IF d.had_entry /\ d.time - d.last_notified < notification_cooldown
        THEN d.sends = 0 /\ d.entry_after = d.last_notified
        ELSE d.sends = 1 /\ d.entry_after = d.time

\* C3: every opportunity returned by _detect_arbitrage and handled by the
\* pass is appended to the arbitrage_opportunities table, suppressed or not.
C3_EveryDetectionPersisted ==
    \A d \in detections :
        /\ d.saves = 1
        /\ d.opportunity \in Range(arbitrage_table)

\* C4: every detected opportunity that the cooldown does not suppress is
\* handed to send_notification as its formatted message.
C4_UnsuppressedIsSent ==
    \A d \in detections :
        ~(d.had_entry /\ d.time - d.last_notified < notification_cooldown)
            => /\ d.sends = 1
               /\ _create_notification_message(d.opportunity) \in Range(sent)

\* ------------------------------------------------------------------------
\* Properties of the orchestrator tick and of startup (Spec)
\* ------------------------------------------------------------------------
Venues == Range(dexes \o cexes)

SavedInTick(v, p) ==
    \E c \in save_calls :
        /\ c.exchange = v /\ c.pair = p
        /\ c.point = price_point(task_result[v].prices[p], tick_timestamp)
        /\ (~c.redis_raised /\ ~c.sqlite_fault)
              => RowOf(v, p, c.point) \in prices_table

\* C7: when the persist phase of a tick has ended, every fetch task of the
\* tick has run to completion (none was cancelled), and every price point a
\* venue's task returned has been passed to save_price with the tick's
\* timestamp, whatever the tasks of the other venues did.
C7_FailedVenueDoesNotBlockOthers ==
    mon_pc = "sleep" =>
        \A v \in Venues :
            /\ task_state[v] = "done"
            /\ ~task_result[v].raised =>
                  \A p \in DOMAIN task_result[v].prices : SavedInTick(v, p)

C7_Witness ==
    /\ mon_pc = "sleep"
    /\ \E v1 \in Range(dexes) : \E v2 \in Range(dexes) \ {v1} : \E v3 \in Venues \ {v1, v2} :
          /\ task_result[v1].raised
          /\ ~task_result[v3].raised /\ task_result[v3].prices = EmptyDict
          /\ \E p \in DOMAIN task_result[v2].prices :
                RowOf(v2, p, price_point(task_result[v2].prices[p], tick_timestamp))
                    \in prices_table

\* C8: when the durable log cannot be initialized, initialize raises before
\* the cache connection is attempted and main() creates neither task.
C8_SqliteFailureAbortsStartup ==
    (startup.done /\ ~startup.sqlite_ok) =>
        /\ db_state = "failed"
        /\ ~redis_attempted
        /\ redis = None
        /\ main_pc = "aborted"
        /\ ~monitor_started
        /\ ~detector_started
        /\ mon_pc = "idle" /\ n_ticks = 0 /\ n_saves = 0

C8_Witness ==
    /\ startup.done /\ ~startup.sqlite_ok
    /\ main_pc = "aborted"
    /\ now >= 1

\* ------------------------------------------------------------------------
\* Properties of GraphQLClient.execute (SpecClient, SpecClientLive)
\* ------------------------------------------------------------------------
\* an attempt that ended in one of the two except clauses
TransportFailure(o) ==
    \/ o.kind \in {"timeout", "connection_error"}
    \/ o.kind = "response" /\ ~o.readable

AttemptsBounded ==
    /\ Len(gq_attempts) <= max_retries + 1
    /\ gq_exit = "exhausted" =>
          /\ Len(gq_attempts) = max_retries + 1
          /\ \A i \in DOMAIN gq_attempts : TransportFailure(gq_attempts[i])
    /\ (/\ Len(gq_attempts) = max_retries + 1
        /\ \A i \in DOMAIN gq_attempts : TransportFailure(gq_attempts[i])) =>
          /\ gq_pc \in {"loop", "returned"}
          /\ gq_pc = "returned" =>
                /\ gq_exit = "exhausted"
                /\ gq_result.data = json_null
                /\ Len(gq_result.errors) = 1
                /\ gq_result.errors[1].message = <<"All requests failed", last_error>>

\* C13: execute makes at most max_retries + 1 attempts; when all of them
\* fail with a timeout or a transport error it makes exactly that many and
\* returns the envelope {data: None, errors: [...]}; and every call returns.
C13_ExecuteTerminatesWithEnvelope ==
    []AttemptsBounded /\ <>(gq_pc = "returned")

\* all attempts used up on timeouts and connection errors
C13_Witness ==
    /\ gq_pc = "returned"
    /\ gq_exit = "exhausted"
    /\ Len(gq_attempts) = max_retries + 1
    /\ \E i \in DOMAIN gq_attempts : gq_attempts[i].kind = "timeout"
    /\ \E i \in DOMAIN gq_attempts : gq_attempts[i].kind = "connection_error"
    /\ gq_sleeps = <<retry_delay, 2 * retry_delay, 3 * retry_delay>>

\* C14: an attempt that receives a status other than 200 and has captured
\* the body is the last one, and execute returns the HTTP error envelope; an
\* attempt that ends in a timeout or a connection error while retries remain
\* is followed by another attempt.
C14_HttpErrorReturnsTransportErrorRetries ==
    \A i \in DOMAIN gq_attempts :
        LET o == gq_attempts[i] IN
        /\ (o.kind = "response" /\ o.status # 200 /\ o.readable) =>
              /\ i = Len(gq_attempts)
              /\ gq_pc = "returned"
              /\ gq_exit = "http_error"
              /\ gq_result.data = json_null
              /\ gq_result.errors = <<[message |-> <<"HTTP error", o.status>>]>>
        /\ (o.kind \in {"timeout", "connection_error"} /\ i <= max_retries) =>
              \/ i < Len(gq_attempts)
              \/ gq_pc \in {"sleep", "loop"} /\ loop_condition(retry_count)

\* a timeout that was retried, then a 500 that ended the call
C14_Witness ==
    /\ gq_pc = "returned"
    /\ gq_exit = "http_error"
    /\ Len(gq_attempts) = 3
    /\ gq_attempts[1].kind = "timeout"
    /\ gq_attempts[2].kind = "connection_error"
    /\ gq_attempts[3].status = 500

\* C15: a 200 response whose body carries errors ends the call at once and
\* is returned as it is, and every parse_*_response returns no price point
\* for it, also when the body carries pools.
C15_GraphqlErrorsReturnedAndAbsent ==
    /\ \A i \in DOMAIN gq_attempts :
          LET o == gq_attempts[i] IN
          (/\ o.kind = "response" /\ o.status = 200 /\ o.readable
           /\ "errors" \in DOMAIN o.body) =>
              /\ i = Len(gq_attempts)
              /\ gq_pc = "returned"
              /\ gq_exit = "response"
              /\ gq_result = o.body
    /\ (/\ gq_exit = "response"
        /\ "errors" \in DOMAIN gq_result
        /\ DOMAIN gq_parsed # {}) =>
          \A p \in Parsers : gq_parsed[p] = <<>>

\* errors next to pools that every parser prices when the errors are absent
C15_Witness ==
    /\ gq_exit = "response"
    /\ Len(gq_attempts) = 1
    /\ "errors" \in DOMAIN gq_result
    /\ "data" \in DOMAIN gq_result
    /\ DOMAIN gq_parsed = Parsers
    /\ \A p \in Parsers :
          adapter(p, [data |-> gq_result.data], "ETH", "JPY") # <<>>

\* ------------------------------------------------------------------------
\* Properties of the two loops under exceptions
\* ------------------------------------------------------------------------
LastMonError == mon_errors[Len(mon_errors)]

\* C16: an exception raised inside a tick never ends start_monitoring: it
\* is caught, the loop waits the fixed delay counted from the exception, and
\* when the delay is over (and not before) a new tick can start.
C16_MonitorLoopSurvivesException ==
    /\ mon_pc # "terminated"
    /\ mon_pc = "error_sleep" =>
          /\ mon_errors # <<>>
          /\ mon_wake = LastMonError.at + error_retry_delay
          /\ (now >= mon_wake /\ n_ticks < MaxTicks) => ENABLED MonFanOutDex
          /\ now < mon_wake => ~ENABLED MonFanOutDex

\* a tick raised, and a tick that started after the delay ran to its end
C16_Witness ==
    /\ Len(mon_errors) = 1
    /\ mon_pc = "sleep"
    /\ n_ticks = 1
    /\ tick_timestamp >= LastMonError.at + error_retry_delay

LastDetError == det_errors[Len(det_errors)]

\* the cooldown table holds every entry of an earlier table, none set back
table_kept(earlier, later) ==
    \A key \in DOMAIN earlier :
        key \in DOMAIN later /\ later[key] >= earlier[key]

\* C17: an exception raised during a pass never ends start_detection: it is
\* caught, the loop waits the fixed delay counted from the exception and
\* then (not before) starts a new pass, and the cooldown table the loop had
\* built when the exception was raised is kept.
C17_DetectionLoopSurvivesException ==
    /\ det_pc # "terminated"
    /\ \A i \in DOMAIN det_errors :
          table_kept(det_errors[i].history, notification_history)
    /\ det_pc = "error_sleep" =>
          /\ det_errors # <<>>
          /\ det_wake = LastDetError.at + error_retry_delay
          /\ notification_history = LastDetError.history
          /\ now >= det_wake => ENABLED DetWake
          /\ now < det_wake => ~ENABLED DetWake

\* a pass raised with an entry in the cooldown table, and the pass started
\* after the delay met the same opportunity and found its entry
C17_Witness ==
    /\ Len(det_errors) = 1
    /\ \E d \in detections :
          /\ d.time >= LastDetError.at + error_retry_delay
          /\ d.had_entry
          /\ opportunity_key(d.opportunity) \in DOMAIN LastDetError.history
          /\ d.last_notified = LastDetError.history[opportunity_key(d.opportunity)]

\* ------------------------------------------------------------------------
\* Properties of the venue adapters
\* ------------------------------------------------------------------------
\* the same pool as the remote API lists it with the other token first
swap_pool(pool) ==
    [pool EXCEPT !.token0 = pool.token1, !.token1 = pool.token0,
                 !.token0Price = pool.token1Price, !.token1Price = pool.token0Price,
                 !.tokens = <<pool.tokens[2], pool.tokens[1]>>]

swap_pools(pools) == [i \in DOMAIN pools |-> swap_pool(pools[i])]

swap_response(response) ==
    [response EXCEPT !.data = [pools |-> swap_pools(response.data.pools),
                               pairs |-> swap_pools(response.data.pairs)]]

\* the adapters that price a pool from token0Price and token1Price
TwoTokenAdapters == Adapters \ {"parse_balancer_response"}

\* the pool's two symbols are the configured pair, in either order and in
\* any letter case
exact_match(pool, base, quote) == symbols_match(pool, upper(base), upper(quote))

\* quote units per one base unit, as the pool states it
quote_per_base(pool, base) ==
    IF upper(pool.token0.symbol) = upper(base) THEN pool.token1Price ELSE pool.token0Price

\* the prices of the points an adapter returned
returned_prices(result) == [i \in DOMAIN result |-> result[i].price]

\* C18: on a response whose pools all are pools of the configured pair, the
\* price a two-token adapter returns is the quote-per-base price of the pool
\* it selected, the base being found by comparing the symbols without regard
\* to letter case, and the adapter returns the same price for the response
\* with token0 and token1 (and their prices) swapped in every pool.
C18_PriceIsQuotePerBaseEitherOrder ==
    (/\ ad_done
     /\ ad_name \in TwoTokenAdapters
     /\ \A i \in DOMAIN ad_response.data.pools :
           exact_match(ad_response.data.pools[i], ad_base, ad_quote)) =>
        /\ returned_prices(adapter(ad_name, swap_response(ad_response), ad_base, ad_quote))
              = returned_prices(ad_result)
        /\ \A k \in DOMAIN ad_result :
              \E i \in DOMAIN ad_response.data.pools :
                  /\ ad_response.data.pools[i].id = ad_result[k].pool_id
                  /\ ad_result[k].price = quote_per_base(ad_response.data.pools[i], ad_base)

\* the pools of the response that are pools of the configured pair
candidates(response, base, quote) ==
    SelectSeq(response.data.pools, LAMBDA pool : exact_match(pool, base, quote))

\* the one candidate whose liquidity is positive and above every other's
is_single_deepest(pools, i) ==
    /\ pools[i].liquidity > 0
    /\ \A j \in DOMAIN pools : j # i => pools[j].liquidity < pools[i].liquidity

\* C19: from a response without errors, when one candidate pool has a
\* positive liquidity above every other candidate's, each parse_*_response
\* returns the price point of that pool; when every candidate has zero
\* liquidity, it returns no point.
C19_DeepestPoolOrAbsence ==
    (/\ ad_done
     /\ ad_name \in Parsers
     /\ "errors" \notin DOMAIN ad_response) =>
        LET pools == candidates(ad_response, ad_base, ad_quote) IN
        /\ \A i \in DOMAIN pools :
              is_single_deepest(pools, i) =>
                  /\ Len(ad_result) = 1
                  /\ ad_result[1].pool_id = pools[i].id
                  /\ ad_result[1].liquidity = pools[i].liquidity
        /\ (\A i \in DOMAIN pools : pools[i].liquidity = 0) => ad_result = <<>>

\* C20: every price point an adapter returns comes from a pool of the
\* response whose two symbols are the configured base and quote (any letter
\* case, either order); without such a pool the adapter returns no point.
C20_OnlyExactTwoSidedMatch ==
    ad_done =>
        \A k \in DOMAIN ad_result :
            \E i \in DOMAIN ad_response.data.pools :
                /\ ad_response.data.pools[i].id = ad_result[k].pool_id
                /\ exact_match(ad_response.data.pools[i], ad_base, ad_quote)

\* ------------------------------------------------------------------------
\* Properties of a detection pass
\* ------------------------------------------------------------------------
\* C21: for a pair of which get_latest_prices reported fewer than two
\* venues the pass does not call _detect_arbitrage and has no opportunity to
\* handle, and every opportunity that was handled (notified, persisted or
\* suppressed) belongs to a pair loaded with at least two venues.
C21_FewerThanTwoVenuesSkipped ==
    /\ last_load.venues < 2 =>
          /\ ~last_load.computed
          /\ last_load.opportunities = 0
          /\ pending = <<>>
    /\ pending # <<>> =>
          /\ last_load.venues >= 2
          /\ \A i \in DOMAIN pending : pending[i].pair = last_load.pair
    /\ \A d \in detections : d.venues >= 2

\* a pass loaded the pair while one venue only had reported, and went on
C21_Witness ==
    /\ last_load.pair = token_pairs[1]
    /\ last_load.venues = 1
    /\ det_pc = "sleep"
    /\ detections = {}

\* ------------------------------------------------------------------------
\* Properties of get_price_history
\* ------------------------------------------------------------------------
ascending(history) ==
    \A i \in DOMAIN history, j \in DOMAIN history :
        i < j => history[i].timestamp <= history[j].timestamp

distinct_timestamps(history) ==
    \A i \in DOMAIN history, j \in DOMAIN history :
        i # j => history[i].timestamp # history[j].timestamp

within(history, start_time, end_time) ==
    \A i \in DOMAIN history :
        start_time <= history[i].timestamp /\ history[i].timestamp <= end_time

\* C22: after any sequence of save_price calls, what get_price_history
\* returns for a range is sorted ascending by timestamp, holds no two
\* entries of one timestamp, and holds only entries of the range.
C22_HistorySortedDistinctInRange ==
    db_state = "ready" =>
        \A e \in SaveExchanges, pair \in Range(token_pairs) :
            \A start_time \in 0..MaxTime, end_time \in 0..MaxTime :
                LET history == get_price_history(e, pair, start_time, end_time) IN
                /\ ascending(history)
                /\ distinct_timestamps(history)
                /\ within(history, start_time, end_time)

\* the step handles an opportunity that is not in cooldown, and the sink
\* raises when _notify_arbitrage calls it
SinkFailsInStep ==
    /\ det_pc = "pairs"
    /\ pending # <<>>
    /\ ~in_cooldown(notification_history, opportunity_key(Head(pending)), now)
    /\ sink_fails
    /\ detections' # detections

C24_DegradedReadsEqualFastTierReads ==
    \A pair \in Range(token_pairs) :
        /\ latest_prices_of(FALSE, pair) = latest_prices_of(TRUE, pair)
        /\ \A e \in SaveExchanges, start_time \in 0..MaxTime, end_time \in 0..MaxTime :
              price_history_of(FALSE, e, pair, start_time, end_time)
                 = price_history_of(TRUE, e, pair, start_time, end_time)

\* the cooldown test as the handled opportunity met it
was_suppressed(d) == d.had_entry /\ d.time - d.last_notified < notification_cooldown

\* C25: every opportunity that passed the cooldown test has its cooldown
\* entry set to the time it was handled, also when the opportunity did not
\* reach the arbitrage_opportunities table.
C25_CooldownSetWhateverPersistence ==
    \A d \in detections :
        ~was_suppressed(d) => d.entry_after = d.time

\* an opportunity was emitted, nothing was written to the durable log, and
\* the cooldown table holds the emission time under its key
C25_Witness ==
    \E d \in detections :
        /\ ~was_suppressed(d)
        /\ d.saves = 0
        /\ arbitrage_table = <<>>
        /\ opportunity_key(d.opportunity) \in DOMAIN notification_history
        /\ notification_history[opportunity_key(d.opportunity)] = d.time

\* ------------------------------------------------------------------------
\* More properties of _detect_arbitrage (SpecFn)
\* ------------------------------------------------------------------------
\* fee1 + fee2 + slippage, the same sum for both directions of a venue pair
pair_cost(X, Y) == _get_exchange_fee(X) + _get_exchange_fee(Y) + slippage_tolerance

\* (p_sell - p_buy) / p_buy * 100 > cost + arbitrage_threshold
direction_exceeds(prices, buy, sell) ==
    (prices[sell].price - prices[buy].price) * 10000
        > (pair_cost(buy, sell) + arbitrage_threshold) * prices[buy].price

\* C26: for two venues with positive prices each direction is emitted once
\* when its own difference exceeds the common cost plus the threshold, and
\* not otherwise, whatever the other direction does; when both exceed, the
\* result holds the two records with buy and sell venues swapped.
C26_BothDirectionsIndependent ==
    fn_done =>
        \A X \in Positive(fn_prices) : \A Y \in Positive(fn_prices) \ {X} :
            /\ pair_cost(X, Y) = pair_cost(Y, X)
            /\ Cardinality(Emitted(fn_result, X, Y))
                 = IF direction_exceeds(fn_prices, X, Y) THEN 1 ELSE 0
            /\ \A k \in Emitted(fn_result, X, Y) :
                 fn_result[k].fees_percent + fn_result[k].slippage_percent = pair_cost(X, Y)
            /\ (direction_exceeds(fn_prices, X, Y) /\ direction_exceeds(fn_prices, Y, X)) =>
                 Cardinality(Emitted(fn_result, X, Y) \cup Emitted(fn_result, Y, X)) = 2

\* both directions of one venue pair were emitted by one call
C26_Witness ==
    /\ fn_done
    /\ \E X \in Positive(fn_prices) : \E Y \in Positive(fn_prices) \ {X} :
          /\ fn_prices[X].price # fn_prices[Y].price
          /\ Emitted(fn_result, X, Y) # {}
          /\ Emitted(fn_result, Y, X) # {}

\* the venues of the table without those that report no positive price
usable_only(prices) == [e \in Positive(prices) |-> prices[e]]

\* C27: a venue whose report is empty, has no price or has a price that is
\* not positive occurs in no opportunity, and the call returns exactly what
\* it returns for the table without such venues: every pair of the other
\* venues is evaluated as if the venue had not reported.
C27_BadVenueSkippedOthersEvaluated ==
    fn_done =>
        /\ \A k \in DOMAIN fn_result :
              /\ fn_result[k].buy_exchange \in Positive(fn_prices)
              /\ fn_result[k].sell_exchange \in Positive(fn_prices)
        /\ fn_result = _detect_arbitrage(token_pairs[1], usable_only(fn_prices))

\* the first venue of the table reports no price and an opportunity between
\* the two other venues is returned
C27_Witness ==
    /\ fn_done
    /\ DOMAIN fn_prices = Range(dexes \o cexes)
    /\ dexes[1] \notin Positive(fn_prices)
    /\ "price" \notin DOMAIN fn_prices[dexes[1]]
    /\ fn_result # <<>>

\* a fetch task of the tick has been started and has not finished
in_flight(v) == task_state[v] = "running"

\* the step is one save_price call of the persist loop
SaveStep == n_saves' = n_saves + 1

\* the step starts the fetch tasks of a tick
FanOutStep == \E v \in DOMAIN task_state : ~in_flight(v) /\ in_flight(v)'

\* the step starts the fetch tasks of a tick that is not the first one
NextFanOutStep ==
    /\ mon_pc # "gather_dex"
    /\ mon_pc' = "gather_dex"
    /\ mon_pc # "idle"

\* C28: the phases of a tick follow one another as fan-out, collect,
\* persist, sleep: tasks are in flight only in the two gathers, a save_price
\* call happens only in the persist phase with every fetch task of the tick
\* finished, and the fetches of a later tick start only out of a sleep whose
\* time has passed, with nothing left to save.
C28_PhasesInOrder ==
    /\ [](/\ (\E v \in DOMAIN task_state : in_flight(v))
                => mon_pc \in {"gather_dex", "gather_cex"}
          /\ mon_pc = "persist" => \A v \in DOMAIN task_state : task_state[v] = "done"
          /\ save_queue # <<>> => mon_pc = "persist")
    /\ [][/\ SaveStep => /\ mon_pc = "persist"
                         /\ \A v \in DOMAIN task_state : task_state[v] = "done"
          /\ FanOutStep => mon_pc \in {"idle", "sleep", "error_sleep", "gather_dex"}
          /\ NextFanOutStep => /\ mon_pc \in {"sleep", "error_sleep"}
                               /\ now >= mon_wake
                               /\ save_queue = <<>>
                               /\ \A v \in DOMAIN task_state : ~in_flight(v)
          /\ (NextFanOutStep /\ mon_pc = "sleep")
                => now >= tick_timestamp + price_update_interval]_vars

\* the second tick is in its persist phase after the first tick saved a
\* price and slept
C28_Witness ==
    /\ n_ticks >= 1
    /\ n_saves >= 1
    /\ mon_pc = "persist"
    /\ save_queue # <<>>
    /\ mon_errors = <<>>

\* the fetch task of the venue has been created in the current tick
launched(v) == task_state[v] \in {"running", "done"}

\* C29: the fan-out of a tick starts the fetches of all venues together: as
\* soon as the fetch of one venue is in flight, the fetch of every other
\* venue has been started as well, so that any two of them can overlap.
C29_AllFetchesOfTickConcurrent ==
    \A v \in DOMAIN task_state :
        in_flight(v) => \A w \in DOMAIN task_state : launched(w)

\* the attempts of the call that ended in a timeout or a transport error
failed_attempts == {k \in DOMAIN gq_attempts : attempt_step(gq_attempts[k]) = "retry"}

tier_read(exchange, pair, start_time, end_time) ==
    LET history_key == price_history_key(exchange, pair) IN
    IF redis # None
    THEN LET data == zrangebyscore(history_key, start_time, end_time)
         IN [i \in DOMAIN data |-> json_loads(data[i].member)]
    ELSE IF history_key \in DOMAIN in_memory_cache
         THEN SelectSeq(in_memory_cache[history_key],
                        LAMBDA item : start_time <= item.timestamp /\ item.timestamp <= end_time)
         ELSE <<>>

\* the rows of the prices table the completion has to add
rows_to_complete(exchange, pair, start_time, end_time) ==
    LET first == tier_read(exchange, pair, start_time, end_time)
        db_history == _get_price_history_from_sqlite(exchange, pair, start_time, end_time)
    IN {db_history[i] : i \in {j \in DOMAIN db_history :
            \A k \in DOMAIN first : first[k].timestamp # db_history[j].timestamp}}

\* C31: when the first read of get_price_history yields fewer than ten
\* points, every row of the prices table of that exchange and pair in the
\* range whose timestamp the first read lacks is part of the result, with
\* the external cache and without it.
C31_HistoryCompletedFromTable ==
    db_state = "ready" =>
        \A exchange \in SaveExchanges, start_time \in 0..MaxTime, end_time \in 0..MaxTime :
            LET pair == token_pairs[1]
                first == tier_read(exchange, pair, start_time, end_time)
                result == get_price_history(exchange, pair, start_time, end_time)
            IN Len(first) < history_limit =>
                  \A row \in rows_to_complete(exchange, pair, start_time, end_time) :
                      \E i \in DOMAIN result : result[i] = row

\* ------------------------------------------------------------------------
\* SpecHistory: save_price on a degraded store whose in-process history of
\* one key already holds one entry less than its limit
\* ------------------------------------------------------------------------
HistoryPreload == history_limit - 1

\* the price_data of the i-th call: every call saves a different price
preload_data(i) == [price |-> 100 + i, liquidity |-> 5]

\* the timestamps of the first calls: a run of one value, then another
PreloadStamps ==
    {[i \in 1..HistoryPreload |-> IF i <= k THEN a ELSE b] :
        k \in 0..HistoryPreload, a \in {0, 1}, b \in {0, 1}}

\* the in-process cache after the first n calls of save_price
RECURSIVE preloaded_cache(_, _)
preloaded_cache(n, stamps) ==
    IF n = 0 THEN EmptyDict
    ELSE save_in_memory(preloaded_cache(n - 1, stamps), dexes[1], token_pairs[1],
                        preload_data(n), stamps[n])

\* the prices table after the same calls
RECURSIVE preloaded_table(_, _)
preloaded_table(n, stamps) ==
    IF n = 0 THEN {}
    ELSE _save_price_to_sqlite(preloaded_table(n - 1, stamps), dexes[1], token_pairs[1],
                               preload_data(n).price, preload_data(n).liquidity,
                               stamps[n], FALSE)

InitHistory ==
    /\ now = 0
    /\ db_state = "ready"
    /\ redis = None
    /\ redis_attempted = TRUE
    /\ \E stamps \in PreloadStamps :
          /\ in_memory_cache = preloaded_cache(HistoryPreload, stamps)
          /\ prices_table = preloaded_table(HistoryPreload, stamps)
          /\ save_calls = {[exchange |-> dexes[1], pair |-> token_pairs[1],
                            point |-> price_point(preload_data(i), stamps[i]),
                            redis_raised |-> FALSE, sqlite_fault |-> FALSE] :
                               i \in 1..HistoryPreload}
    /\ redis_kv = EmptyDict
    /\ redis_zset = EmptyDict
    /\ startup = [done |-> TRUE, sqlite_ok |-> TRUE, redis_ok |-> FALSE]
    /\ n_saves = HistoryPreload
    /\ main_pc = "initialize"
    /\ monitor_started = FALSE
    /\ detector_started = FALSE
    /\ mon_pc = "idle"
    /\ task_state = [v \in Range(dexes \o cexes) |-> "idle"]
    /\ task_result = [v \in Range(dexes \o cexes) |-> NoResult]
    /\ dex_prices = EmptyDict
    /\ all_prices = EmptyDict
    /\ save_queue = <<>>
    /\ tick_timestamp = 0
    /\ mon_wake = 0
    /\ n_ticks = 0
    /\ mon_errors = <<>>
    /\ det_errors = <<>>
    /\ last_load = NoLoad
    /\ det_pc = "pairs"
    /\ det_idx = 1
    /\ pending = <<>>
    /\ notification_history = EmptyDict
    /\ sent = <<>>
    /\ arbitrage_table = <<>>
    /\ detections = {}
    /\ det_wake = 0
    /\ fn_prices = EmptyDict
    /\ fn_result = <<>>
    /\ fn_done = FALSE
    /\ gq_pc = "loop"
    /\ retry_count = 0
    /\ last_error = None
    /\ gq_attempts = <<>>
    /\ gq_sleeps = <<>>
    /\ gq_exit = "running"
    /\ gq_result = EmptyDict
    /\ gq_parsed = EmptyDict
    /\ ad_result = <<>>
    /\ ad_done = FALSE
    /\ NoAdapterCall
    /\ DefaultConfig

\* one more call of save_price, with any timestamp
HistSavePrice ==
    /\ n_saves < HistoryPreload + MaxSaves
    /\ \E exchange \in SaveExchanges, timestamp \in 0..MaxTime :
        LET price_data == preload_data(n_saves + 1) IN
        /\ save_price(exchange, token_pairs[1], price_data, timestamp, "none", FALSE)
        /\ save_calls' = save_calls \cup
              {[exchange |-> exchange, pair |-> token_pairs[1],
                point |-> price_point(price_data, timestamp),
                redis_raised |-> FALSE, sqlite_fault |-> FALSE]}
    /\ n_saves' = n_saves + 1
    /\ UNCHANGED <<now, startup, mainVars, monVars, detVars, fnVars, gqVars, adVars, cfgVars>>

NextHistory == HistSavePrice

SpecHistory == InitHistory /\ [][NextHistory]_vars

\* the points written for the key of an exchange, by all calls so far
written_points(exchange) ==
    {c.point : c \in {d \in save_calls : d.exchange = exchange /\ d.pair = token_pairs[1]}}

\* the in-process history list of the key
history_list(exchange) ==
    Get(in_memory_cache, price_history_key(exchange, token_pairs[1]), <<>>)

\* C32: on a degraded store the in-process history list of every key holds
\* at most ten entries, all of them written for the key and as many as were
\* written up to ten, and every written entry that the list lacks is no
\* newer than any entry the list holds.
C32_MemoryHistoryKeepsTenNewest ==
    redis = None =>
        \A exchange \in SaveExchanges :
            LET list == history_list(exchange)
                written == written_points(exchange)
            IN /\ Len(list) <= history_limit
               /\ Len(list) = Min(history_limit, Cardinality(written))
               /\ \A i \in DOMAIN list : list[i] \in written
               /\ \A i, j \in DOMAIN list : i # j => list[i] # list[j]
               /\ \A w \in written :
                     (\A i \in DOMAIN list : list[i] # w)
                        => \A i \in DOMAIN list : w.timestamp <= list[i].timestamp

\* eleven points were written for the key out of timestamp order, the list
\* is full, and the point it lacks is older than the newest one it holds
C32_Witness ==
    /\ redis = None
    /\ Cardinality(written_points(dexes[1])) = history_limit + 1
    /\ Len(history_list(dexes[1])) = history_limit
    /\ \E w \in written_points(dexes[1]) :
          /\ \A i \in DOMAIN history_list(dexes[1]) : history_list(dexes[1])[i] # w
          /\ w.price < 100 + HistoryPreload
          /\ w.timestamp < history_list(dexes[1])[1].timestamp

\* the timestamps of the save_price calls made so far for the key
written_timestamps(exchange) == {w.timestamp : w \in written_points(exchange)}

\* C33: with the external cache, the sorted set of a key holds no entry
\* that is more than one hour (cache_ttl) older than the newest entry
\* written for the key, in whatever order the writes arrived.
C33_HistorySetWithinHourOfNewest ==
    \A exchange \in SaveExchanges :
        LET zset == Get(redis_zset, price_history_key(exchange, token_pairs[1]), {})
            stamps == written_timestamps(exchange)
        IN \A e \in zset : \A t \in stamps : e.score >= t - cache_ttl

\* ------------------------------------------------------------------------
\* SpecVenuePairs: one venue adapter of PriceMonitor run over two configured
\* token pairs, on responses that may hold malformed pools
\* ------------------------------------------------------------------------
VenuePairs == <<[base |-> "ETH", quote |-> "JPY"], [base |-> "BTC", quote |-> "JPY"]>>

\* TokenPair.__str__
pair_name(pair) == IF pair.base = "ETH" THEN "ETH/JPY" ELSE "BTC/JPY"

\* the bodies a Uniswap query for one pair can be answered with: no pool, a
\* pool of the pair, a pool without its token objects, a pool without its
\* price fields, a null data object
UniswapBodies(pair) ==
    {Body(<<>>, FALSE),
     Body(<<Pool(1, <<pair.base, pair.quote>>, 2)>>, FALSE),
     Body(<<[id |-> 1, token0Price |-> 101, token1Price |-> 102, liquidity |-> 2]>>, FALSE),
     Body(<<[id |-> 1, token0 |-> [symbol |-> pair.base],
             token1 |-> [symbol |-> pair.quote], liquidity |-> 2]>>, FALSE),
     [data |-> json_null]}

\* pool["token0"]["symbol"], pool["token1"]["symbol"] and the price
\* subscripts of lines 141-149 raise KeyError on a pool that lacks them
uniswap_pool_raises(pool) ==
    ~({"token0", "token1", "token0Price", "token1Price"} \subseteq DOMAIN pool)

\* the body of the try statement of lines 115-156 for one pair
uniswap_pair(data, pair) ==
    LET pools == response_list(data, "pools") IN
    IF data.data = json_null THEN [raised |-> TRUE, found |-> <<>>]
    ELSE IF pools # <<>> /\ uniswap_pool_raises(pools[1])
    THEN [raised |-> TRUE, found |-> <<>>]
    ELSE [raised |-> FALSE, found |-> _fetch_uniswap_prices(data, pair.base, pair.quote)]

\* PriceMonitor._fetch_uniswap_prices over the configured pairs: the except
\* clause of line 157 is inside the for loop
fetch_uniswap_pairs(responses, pairs) ==
    LET priced == {i \in DOMAIN pairs :
                      LET r == uniswap_pair(responses[pair_name(pairs[i])], pairs[i])
                      IN ~r.raised /\ r.found # <<>>}
    IN [name \in {pair_name(pairs[i]) : i \in priced} |->
          LET i == CHOOSE k \in priced : pair_name(pairs[k]) = name
          IN uniswap_pair(responses[name], pairs[i]).found[1]]

\* a pool of the Curve API: its coins, the USD price of each coin, its size
CurvePool(base, quote, usdPrices) ==
    [coins |-> <<[symbol |-> base], [symbol |-> quote]>>,
     usdPrices |-> usdPrices, usdTotal |-> 5]

\* pools of either pair: priced, with a zero quote price, with one price
\* missing from usdPrices, and without usdPrices
CurvePools ==
    UNION {{CurvePool(p.base, p.quote, <<300, 2>>),
            CurvePool(p.base, p.quote, <<300, 0>>),
            CurvePool(p.base, p.quote, <<300>>),
            [coins |-> <<[symbol |-> p.base], [symbol |-> p.quote]>>, usdTotal |-> 5]} :
              p \in Range(VenuePairs)}

CurveBodies ==
    UNION {{[data |-> [poolData |-> pools]] : pools \in [1..n -> CurvePools]} :
              n \in 0..MaxPools}

\* tokens.index(symbol)
index_of(tokens, symbol) ==
    CHOOSE i \in DOMAIN tokens : tokens[i] = symbol /\ \A j \in 1..(i - 1) : tokens[j] # symbol

\* the inner for loop of lines 281-302 for one pair, from pool j on: the
\* subscript usdPrices[idx] raises IndexError where the list is too short
RECURSIVE curve_pools(_, _, _)
curve_pools(pools_data, j, pair) ==
    IF j > Len(pools_data) THEN [raised |-> FALSE, found |-> <<>>]
    ELSE
      LET pool == pools_data[j]
          coins == Get(pool, "coins", <<>>)
          tokens == [k \in DOMAIN coins |-> upper(Get(coins[k], "symbol", ""))]
          next == curve_pools(pools_data, j + 1, pair)
      IN IF pair.base \in Range(tokens) /\ pair.quote \in Range(tokens)
         THEN LET base_idx == index_of(tokens, pair.base)
                  quote_idx == index_of(tokens, pair.quote)
              IN IF "usdPrices" \notin DOMAIN pool THEN next
                 ELSE IF base_idx > Len(pool.usdPrices) \/ quote_idx > Len(pool.usdPrices)
                 THEN [raised |-> TRUE, found |-> <<>>]
                 ELSE IF pool.usdPrices[quote_idx] > 0
                 THEN [raised |-> FALSE,
                       found |-> <<[price |-> [num |-> pool.usdPrices[base_idx],
                                               den |-> pool.usdPrices[quote_idx]],
                                    liquidity |-> Get(pool, "usdTotal", 0),
                                    timestamp |-> now]>>]
                 ELSE next
         ELSE next

\* the for loop over the pairs at line 277, inside the single try statement
\* of lines 270-304: an exception leaves both loops and prices is returned
\* as it is
RECURSIVE curve_pairs(_, _, _, _)
curve_pairs(pools_data, pairs, i, prices) ==
    IF i > Len(pairs) THEN prices
    ELSE LET r == curve_pools(pools_data, 1, pairs[i]) IN
         IF r.raised THEN prices
         ELSE curve_pairs(pools_data, pairs, i + 1,
                          IF r.found = <<>> THEN prices
                          ELSE Put(prices, pair_name(pairs[i]), r.found[1]))

\* PriceMonitor._fetch_curve_prices on the body of a 200 response
fetch_curve_pairs(data, pairs) ==
    curve_pairs(response_list(data, "poolData"), pairs, 1, EmptyDict)

VenueFetchers == {"_fetch_uniswap_prices", "_fetch_curve_prices"}

\* the venue adapter called by name for a list of configured pairs
fetch_pairs(name, response, pairs) ==
    IF name = "_fetch_uniswap_prices" THEN fetch_uniswap_pairs(response, pairs)
    ELSE fetch_curve_pairs(response, pairs)

InitVenuePairs ==
    /\ InitCommon
    /\ DefaultConfig
    /\ fn_prices = EmptyDict
    /\ ad_base = None
    /\ ad_quote = None
    /\ \/ /\ ad_name = "_fetch_uniswap_prices"
          /\ \E first \in UniswapBodies(VenuePairs[1]), second \in UniswapBodies(VenuePairs[2]) :
                ad_response = [name \in {"ETH/JPY", "BTC/JPY"} |->
                                  IF name = "ETH/JPY" THEN first ELSE second]
       \/ /\ ad_name = "_fetch_curve_prices"
          /\ ad_response \in CurveBodies

VenueFetch ==
    /\ ~ad_done
    /\ ad_result' = fetch_pairs(ad_name, ad_response, VenuePairs)
    /\ ad_done' = TRUE
    /\ UNCHANGED <<now, storeVars, ghostVars, mainVars, monVars, detVars, fnVars, gqVars,
                   cfgVars, ad_name, ad_response, ad_base, ad_quote>>

NextVenuePairs == VenueFetch

SpecVenuePairs == InitVenuePairs /\ [][NextVenuePairs]_vars

\* what the adapter returns when the pair is the only configured one
alone(name, response, pair) == fetch_pairs(name, response, <<pair>>)

\* C34: a malformed pool or a missing field costs only the pair that is
\* being parsed: every configured pair that the adapter prices when it is
\* the only configured pair is priced, with the same point, when the adapter
\* runs over all configured pairs on the same responses.
C34_MalformedPoolCostsOnlyItsPair ==
    ad_done =>
        \A i \in DOMAIN VenuePairs :
            LET single == alone(ad_name, ad_response, VenuePairs[i])
                name == pair_name(VenuePairs[i])
            IN name \in DOMAIN single =>
                  /\ name \in DOMAIN ad_result
                  /\ ad_result[name] = single[name]

\* ------------------------------------------------------------------------
\* The cooldown after a failed notification (SpecPass)
\* ------------------------------------------------------------------------
\* the handled opportunity passed the cooldown test and _notify_arbitrage
\* failed on it
failed_inside_notify(d) == ~was_suppressed(d) /\ d.sink_raised

\* e is a later opportunity with the key of d, handled before the cooldown
\* that started with d is over
within_cooldown_of(d, e) ==
    /\ opportunity_key(e.opportunity) = opportunity_key(d.opportunity)
    /\ e.time > d.time
    /\ e.time - d.time < notification_cooldown

\* C35: an opportunity that passed the cooldown test and was neither sent
\* nor stored because _notify_arbitrage failed has started a cooldown all
\* the same: its key holds the time it was handled, and every opportunity
\* with the same key handled less than notification_cooldown later is
\* suppressed.
C35_FailedNotificationStillSuppresses ==
    \A d \in detections :
        failed_inside_notify(d) =>
            /\ d.sends = 0
            /\ d.saves = 0
            /\ d.entry_after = d.time
            /\ \A e \in detections : within_cooldown_of(d, e) => was_suppressed(e)

\* nothing was ever delivered or stored, and an opportunity of a later pass
\* was suppressed by the entry of one whose notification failed
C35_Witness ==
    /\ sent = <<>>
    /\ arbitrage_table = <<>>
    /\ \E d \in detections, e \in detections :
          /\ failed_inside_notify(d)
          /\ within_cooldown_of(d, e)
          /\ was_suppressed(e)
          /\ e.last_notified = d.time

\* ------------------------------------------------------------------------
\* SpecInterleave: the Persist phase of a tick of the monitoring loop and the
\* detection loop, the two tasks main() gathers, on a degraded store
\* ------------------------------------------------------------------------
\* what every fetch task of the second tick returned: a price of the pair
second_tick_result(v) ==
    [raised |-> FALSE,
     prices |-> [p \in Range(token_pairs) |->
                   [fetched_price_data(v, 100) EXCEPT !.timestamp = 1]]]

\* The second tick has collected its prices at time 1 and is about to save
\* them; the store holds the prices of the first tick (time 0); the detection
\* loop made its first pass before anything was saved and sleeps until 1.
InitInterleave ==
    /\ now = 1
    /\ db_state = "ready"
    /\ redis = None
    /\ redis_attempted = TRUE
    /\ \E price_of \in [Range(dexes \o cexes) -> PassPrices] :
          /\ in_memory_cache = saved_cache(dexes \o cexes, price_of)
          /\ prices_table = saved_rows(dexes \o cexes, price_of)
          /\ save_calls = {[exchange |-> v, pair |-> token_pairs[1],
                            point |-> price_point(fetched_price_data(v, price_of[v]), 0),
                            redis_raised |-> FALSE, sqlite_fault |-> FALSE] :
                               v \in Range(dexes \o cexes)}
    /\ redis_kv = EmptyDict
    /\ redis_zset = EmptyDict
    /\ startup = [done |-> TRUE, sqlite_ok |-> TRUE, redis_ok |-> FALSE]
    /\ n_saves = Len(dexes \o cexes)
    /\ main_pc = "gather"
    /\ monitor_started = TRUE
    /\ detector_started = TRUE
    /\ mon_pc = "persist"
    /\ task_state = [v \in Range(dexes \o cexes) |-> "done"]
    /\ task_result = [v \in Range(dexes \o cexes) |-> second_tick_result(v)]
    /\ dex_prices = collect_results(dexes, task_result)
    /\ all_prices = merge_dicts(dex_prices, collect_results(cexes, task_result))
    /\ save_queue = save_order(all_prices, 1)
    /\ tick_timestamp = 1
    /\ mon_wake = price_update_interval
    /\ n_ticks = 1
    /\ mon_errors = <<>>
    /\ det_errors = <<>>
    /\ last_load = [NoLoad EXCEPT !.pair = token_pairs[1]]
    /\ det_pc = "sleep"
    /\ det_idx = 1
    /\ pending = <<>>
    /\ notification_history = EmptyDict
    /\ sent = <<>>
    /\ arbitrage_table = <<>>
    /\ detections = {}
    /\ det_wake = price_update_interval
    /\ fn_prices = EmptyDict
    /\ fn_result = <<>>
    /\ fn_done = FALSE
    /\ gq_pc = "loop"
    /\ retry_count = 0
    /\ last_error = None
    /\ gq_attempts = <<>>
    /\ gq_sleeps = <<>>
    /\ gq_exit = "running"
    /\ gq_result = EmptyDict
    /\ gq_parsed = EmptyDict
    /\ ad_result = <<>>
    /\ ad_done = FALSE
    /\ NoAdapterCall
    /\ DefaultConfig

NextInterleave ==
    \/ Tick
    \/ MonSavePrice
    \/ MonSleep
    \/ DetLoadPair
    \/ DetHandleOpportunity
    \/ DetSleep
    \/ DetWake

SpecInterleave == InitInterleave /\ [][NextInterleave]_vars

\* the step is the load of a token pair by the detection pass
LoadStep == det_idx' = det_idx + 1

\* the timestamps of the points get_latest_prices returns for the pair
latest_stamps(pair) ==
    {get_latest_prices(pair)[e].timestamp : e \in DOMAIN get_latest_prices(pair)}

\* C36: the detection pass looks at no timestamp: whenever it loads a pair
\* it compares the latest points of all venues that have one, whatever
\* their ages, also between two save_price calls of a tick; and on a
\* degraded store the latest point of a venue stays readable however old.
C36_PassComparesPointsOfAnyAge ==
    /\ [](redis = None =>
            \A c \in save_calls :
                /\ c.exchange \in DOMAIN get_latest_prices(c.pair)
                /\ get_latest_prices(c.pair)[c.exchange].timestamp >= c.point.timestamp)
    /\ [][LoadStep =>
            /\ last_load'.venues = Cardinality(DOMAIN get_latest_prices(last_load'.pair))
            /\ last_load'.computed = (last_load'.venues >= 2)
            /\ last_load'.stamps = latest_stamps(last_load'.pair)]_vars

\* in the middle of the Persist phase of the second tick the pass has
\* compared a point saved in this tick with a point saved in the first tick
C36_Witness ==
    /\ mon_pc = "persist"
    /\ save_queue # <<>>
    /\ Len(save_queue) < Len(dexes \o cexes)
    /\ last_load.computed
    /\ last_load.stamps = {0, tick_timestamp}
    /\ tick_timestamp = 1
    /\ redis = None

\* fees, slippage_tolerance and arbitrage_threshold are all non-negative
NonNegativeCosts ==
    /\ \A e \in Range(dexes \o cexes) : _get_exchange_fee(e) >= 0
    /\ slippage_tolerance >= 0
    /\ arbitrage_threshold >= 0

\* C37: with non-negative fees, slippage tolerance and threshold, every
\* record _detect_arbitrage returns buys at a strictly lower price than it
\* sells at, and of the two directions of a venue pair at most one is
\* returned.
C37_BuyBelowSellOneDirection ==
    (fn_done /\ NonNegativeCosts) =>
        /\ \A k \in DOMAIN fn_result : fn_result[k].buy_price < fn_result[k].sell_price
        /\ \A X \in DOMAIN fn_prices : \A Y \in DOMAIN fn_prices \ {X} :
              Emitted(fn_result, X, Y) = {} \/ Emitted(fn_result, Y, X) = {}

\* a call under the default threshold that returned one direction of a
\* venue pair whose prices differ
C37_Witness ==
    /\ fn_done
    /\ NonNegativeCosts
    /\ \E X \in Positive(fn_prices) : \E Y \in Positive(fn_prices) \ {X} :
          /\ Emitted(fn_result, X, Y) # {}
          /\ Emitted(fn_result, Y, X) = {}
          /\ fn_prices[X].price < fn_prices[Y].price

\* ------------------------------------------------------------------------
\* A failed save_price inside the Persist phase (Spec)
\* ------------------------------------------------------------------------
\* the save_price call made in the step failed in the external cache or in
\* the prices table
FailedSaveStep ==
    /\ SaveStep
    /\ \E c \in save_calls' \ save_calls : c.redis_raised \/ c.sqlite_fault

\* every price point the tick collected was handed to save_price
all_points_attempted ==
    \A k \in DOMAIN save_order(all_prices, 1) :
        LET item == save_order(all_prices, 1)[k] IN
        \E c \in save_calls :
            /\ c.exchange = item.exchange
            /\ c.pair = item.pair
            /\ c.point = price_point(item.price_data, tick_timestamp)

\* C38: a save_price call that fails raises nothing to the persist loop:
\* the loop goes on with the next price point of the tick, no error of the
\* tick is recorded, and a tick that reaches its sleep has handed every
\* price point it collected to save_price.
C38_FailedSaveDoesNotStopPersist ==
    /\ [][FailedSaveStep => /\ mon_pc' = "persist"
                            /\ save_queue' = Tail(save_queue)
                            /\ mon_errors' = mon_errors]_vars
    /\ []((mon_pc = "sleep" /\ n_ticks >= 1) => all_points_attempted)
    /\ [](mon_pc # "error_sleep")

\* the tick sleeps after a save_price call for its first venue failed and
\* the call for its last venue was made all the same
C38_Witness ==
    /\ mon_pc = "sleep"
    /\ n_ticks >= 1
    /\ mon_errors = <<>>
    /\ \E c \in save_calls :
          /\ c.exchange = dexes[1]
          /\ c.redis_raised \/ c.sqlite_fault
    /\ \E c \in save_calls :
          /\ c.exchange = cexes[Len(cexes)]
          /\ c.point.timestamp = tick_timestamp
    /\ Cardinality(DOMAIN all_prices) = Len(dexes \o cexes)

====
